---- MODULE Spec2Model ----
(***************************************************************************)
(* Model of rust-ytdownloader: the UI event loop (src/src/main.rs), the    *)
(* download supervisor (src/src/downloader.rs) and the dependency          *)
(* bootstrap (src/src/initializer.rs).                                     *)
(*                                                                         *)
(* Threads are modelled as processes with a program counter per job:       *)
(*   wpc  - the worker running download_video                              *)
(*   kpc  - the killer thread started inside download_video               *)
(*   the relay thread (forwarding rx_internal to the UI channel)           *)
(*   the child process (yt-dlp) writing to its stdout and stderr pipes     *)
(*   ipc  - the bootstrap thread running init_dependencies, with fpc its   *)
(*          position in download_file                                      *)
(* Channels are FIFO sequences.  The variables under "history" and the job *)
(* tag of a message are history variables: the program does not have them. *)
(***************************************************************************)
EXTENDS Integers, Sequences, FiniteSets, TLC

\* ---- bounds of the model ------------------------------------------------
MaxJobs == 2        \* download_video runs started in one behaviour
NumEntries == 2     \* entries of the analysed playlist
MaxLines == 2       \* stdout lines one child prints
PipeCap == 1        \* chunks an OS pipe holds before the writer blocks
MaxStops == 2       \* stop signals the stop channel of one job holds
MaxAnalyses == 1    \* start_analysis clicks in one behaviour
MaxAttempts == 2    \* attempts of one request before the backoff gives up
MaxBody == 1        \* bytes of a response body and of its Content-Length
MaxEntries == 1     \* entries of the ffmpeg zip archive
MaxStrLen == 3      \* characters of a file name given to sanitize_filename alone
MaxToks == 3        \* tokens of a stdout line given to the read loop body alone
MaxDlBody == 4      \* bytes of a response when download_file runs alone
MaxPathDirs == 2    \* directories of the PATH of the application

Jobs == 1..MaxJobs

VARIABLES
    \* MyApp (main.rs 107-132)
    state, playlist_info, download_queue, current_download_idx,
    progress, progress_text, error_msg, stop_tx, rx_ui,
    \* threads and processes of the jobs
    \* (jobEntry: the queue entry download_next cloned for the job, main.rs 270)
    nJobs, jobEntry, wpc, kpc, mutex, child, exitc, outPipe, nLines, errFill,
    chan, stopBuf, analysis,
    \* history
    sent, seen, uiPhase, stopReq, nAnalyses, selfExit, printed, midReadStop,
    jobLimit, hist,
    \* the bootstrap: the platform and the files of the application directory,
    \* init_dependencies and download_file, the init relay, MyApp's init fields
    platform, files, ipc, fpc, fres, attempts, total_size, body_left, downloaded,
    entries, zi, init_rx, irelay, init_sent, init_status, init_progress, skip_set_path,
    \* the argument and the results of a function that is applied by itself
    pin, pout,
    \* history: the files that existed when init_dependencies started
    files0

uiVars == <<state, playlist_info, download_queue, current_download_idx,
            progress, progress_text, error_msg, stop_tx, rx_ui>>
jobVars == <<nJobs, jobEntry, wpc, kpc, mutex, child, exitc, outPipe, nLines, errFill,
             chan, stopBuf, analysis>>
histVars == <<sent, seen, uiPhase, stopReq, nAnalyses, selfExit, printed, midReadStop,
              jobLimit, hist>>
dlVars == <<fpc, fres, attempts, total_size, body_left, downloaded>>
zipVars == <<entries, zi>>
bootUi == <<init_status, init_progress, skip_set_path>>
bootVars == <<platform, files0, files, ipc, dlVars, zipVars, init_rx, irelay, init_sent, bootUi>>
pureVars == <<pin, pout>>
vars == <<uiVars, jobVars, histVars, bootVars, pureVars>>

\* ---- DownloadStatus (downloader.rs 27-34) --------------------------------
Starting(msg) == [kind |-> "Starting", pct |-> 0, text |-> msg]
Progress(p, speed) == [kind |-> "Progress", pct |-> p, text |-> speed]
Converting == [kind |-> "Converting", pct |-> 0, text |-> ""]
Completed(title) == [kind |-> "Completed", pct |-> 0, text |-> title]
Failed(msg) == [kind |-> "Failed", pct |-> 0, text |-> msg]
Stopped == [kind |-> "Stopped", pct |-> 0, text |-> ""]

IsTerminal(s) == s.kind \in {"Completed", "Failed", "Stopped"}

\* UiMessage (main.rs 134-138); job is the history tag of the sending job
DownloadProgress(s, j) == [tag |-> "DownloadProgress", st |-> s, job |-> j]
AnalysisDone(ok, n) ==
    [tag |-> "AnalysisDone", st |-> [kind |-> IF ok THEN "Ok" ELSE "Err", pct |-> n, text |-> ""], job |-> 0]

\* ---- helpers --------------------------------------------------------------
None == 0
NoPlaylist == [some |-> FALSE, selected |-> <<>>]
\* a string is the sequence of its characters
Str(cs) == cs
\* the title of the e-th entry of the playlist
TitleOf(e) ==
    IF e = 1
    THEN Str(<<"T", "e", "s", "t", " ", "/", " ", "S", "o", "n", "g", ":", " ", "1">>)
    ELSE Str(<<"t", "i", "t", "l", "e">>)

\* ---- sanitize_filename (downloader.rs 217-228) ------------------------------
\* char::is_alphanumeric and char::is_whitespace on the characters of the model
IsAlphanumeric(c) ==
    c \in {"T", "e", "s", "t", "S", "o", "n", "g", "i", "l", "a", "1"}
IsWhitespace(c) == c \in {" ", "\t"}
\* downloader.rs 220: the punctuation the filter keeps
AllowList == {"-", "_", "(", ")", "[", "]", ".", ",", "!", "&", "'"}
\* downloader.rs 222: the characters the map replaces
ReservedChars == {"/", "\\", ":", "*", "?", "\"", "<", ">", "|"}

\* downloader.rs 220: .filter(...)
FilterChars(s) ==
    SelectSeq(s, LAMBDA c : IsAlphanumeric(c) \/ IsWhitespace(c) \/ c \in AllowList)
\* downloader.rs 221-224: .map(...)
MapChars(s) == [i \in 1..Len(s) |-> IF s[i] \in ReservedChars THEN "_" ELSE s[i]]

RECURSIVE TrimStart(_)
TrimStart(s) ==
    IF s # <<>> /\ IsWhitespace(Head(s)) THEN TrimStart(Tail(s)) ELSE s
RECURSIVE TrimEnd(_)
TrimEnd(s) ==
    IF s # <<>> /\ IsWhitespace(s[Len(s)]) THEN TrimEnd(SubSeq(s, 1, Len(s) - 1)) ELSE s
\* downloader.rs 226: .trim()
Trim(s) == TrimEnd(TrimStart(s))

\* sanitize_filename changed to trim before it filters
sanitize_filename_trim_first(filename) == MapChars(FilterChars(Trim(filename)))

sanitize_filename(filename) == Trim(MapChars(FilterChars(filename)))

\* downloader.rs 45, 65-72: the base name of the output template of a job
OutputBase(title) == sanitize_filename(title)

\* ---- the paths of the tools ----------------------------------------------------
\* a path is a directory and a file name; a command given by its bare name has
\* no directory and is looked up in the directories of PATH
AppDir == "app_dir"
BareName == "none"
\* initializer.rs 133-137
get_app_dir == AppDir
\* initializer.rs 139-144: the yt-dlp path init_dependencies checks and installs to
initializer_get_ytdlp_path(os) ==
    [dir |-> get_app_dir, name |-> IF os = "windows" THEN "yt-dlp.exe" ELSE "yt-dlp"]
\* initializer.rs 146-151
get_ffmpeg_path(os) ==
    [dir |-> get_app_dir, name |-> IF os = "windows" THEN "ffmpeg.exe" ELSE "ffmpeg"]
\* playlist.rs 77-98: the yt-dlp path download_video and fetch_playlist_info run;
\* pipx_exists is the result of pipx_path.exists()
playlist_get_ytdlp_path(os, pipx_exists) ==
    CASE os = "windows" -> [dir |-> AppDir, name |-> "yt-dlp.exe"]
      [] os = "macos" -> [dir |-> BareName, name |-> "yt-dlp"]
      [] os = "linux" -> IF pipx_exists
                         THEN [dir |-> "home/.local/bin", name |-> "yt-dlp"]
                         ELSE [dir |-> BareName, name |-> "yt-dlp"]
\* downloader.rs 47-63: the PATH download_video gives the child, as the list of
\* its directories; current_path is the PATH of the application
new_path(os, current_path) ==
    CASE os = "windows" -> <<AppDir>> \o current_path
      [] os = "macos" ->
           current_path \o <<"/opt/homebrew/bin", "/usr/local/bin", "home/.cargo/bin">>
      [] os = "linux" -> current_path

RECURSIVE LookUp(_, _)
\* the first directory of a search path that is among those holding a file
LookUp(search, holding) ==
    IF search = <<>> THEN "not_found"
    ELSE IF Head(search) \in holding THEN Head(search)
    ELSE LookUp(Tail(search), holding)
\* downloader.rs 129-133 (Command::new(&ytdlp).env("PATH", &new_path)): the
\* directory of the yt-dlp that is executed: that of the path, or for a bare
\* name the first directory of the child's PATH that holds a yt-dlp
ExecutedDir(path, search, holding) ==
    IF path.dir # BareName THEN path.dir ELSE LookUp(search, holding)

\* ---- the argument list of the child (downloader.rs 74-125) --------------------
\* DownloadFormat (downloader.rs 8-15) and the name yt-dlp knows a format by
DownloadFormats == {"Mp3", "Wav", "M4a", "Flac", "Mp4", "Webm"}
FormatName(f) ==
    CASE f = "Mp3" -> "mp3" [] f = "Wav" -> "wav" [] f = "M4a" -> "m4a"
      [] f = "Flac" -> "flac" [] f = "Mp4" -> "mp4" [] f = "Webm" -> "webm"
\* downloader.rs 111, 117: the format selectors of the video formats
FormatSelector(f) ==
    IF f = "Mp4" THEN "bestvideo[ext=mp4]+bestaudio[ext=m4a]/best[ext=mp4]/best"
    ELSE "bestvideo[ext=webm]+bestaudio/best"

\* the argument building changed to pass the quality for every audio format
BuildArgs_quality_for_all_audio(config, output_str) ==
    <<"--no-playlist", "--newline", "--progress", "--embed-thumbnail", "--add-metadata",
      "-o", output_str>>
    \o (IF config.format \in {"Mp3", "Wav", "M4a", "Flac"}
        THEN <<"-x", "--audio-format", FormatName(config.format),
               "--audio-quality", config.audio_quality>>
        ELSE <<"-f", FormatSelector(config.format),
               "--merge-output-format", FormatName(config.format)>>)
    \o <<config.url>>

\* downloader.rs 74-125: args of the yt-dlp command for a DownloadConfig and an
\* output template
BuildArgs(config, output_str) ==
    <<"--no-playlist", "--newline", "--progress", "--embed-thumbnail", "--add-metadata",
      "-o", output_str>>
    \o (CASE config.format = "Mp3" ->
               <<"-x", "--audio-format", "mp3", "--audio-quality", config.audio_quality>>
          [] config.format = "Wav" -> <<"-x", "--audio-format", "wav">>
          [] config.format = "M4a" -> <<"-x", "--audio-format", "m4a">>
          [] config.format = "Flac" -> <<"-x", "--audio-format", "flac">>
          [] config.format = "Mp4" ->
               <<"-f", "bestvideo[ext=mp4]+bestaudio[ext=m4a]/best[ext=mp4]/best",
                 "--merge-output-format", "mp4">>
          [] config.format = "Webm" ->
               <<"-f", "bestvideo[ext=webm]+bestaudio/best",
                 "--merge-output-format", "webm">>)
    \o <<config.url>>

\* ---- stdout lines (downloader.rs 173-190) ---------------------------------
\* A line is the sequence of its characters; each tag the read loop looks for
\* is written as one character.
LineProgress ==
    Str(<<"[download]", " ", " ", "5", "0", ".", "0", "%", " ", "o", "f", " ", "1", "M", "/", "s">>)
LineConvert == Str(<<"[ExtractAudio]", " ", "x">>)
LineOther == Str(<<"[youtube]", " ", "x">>)
LineBadPercent == Str(<<"[download]", " ", "x", "%">>)
LineBadPercentMerger == Str(<<"[download]", " ", "x", "%", " ", "[Merger]">>)
JobLines == {LineProgress, LineConvert}
\* a progress line that holds a byte sequence that is not UTF-8
LineInvalidUtf8 == Str(<<"[download]", " ", "5", "0", "%", " ", "<FF>">>)
\* the lines of a child for the read loop taken line by line
ReadLines == JobLines \cup {LineOther, LineBadPercent, LineBadPercentMerger, LineInvalidUtf8}

\* str::contains
Contains(s, pat) ==
    \E i \in 1..(Len(s) - Len(pat) + 1) : SubSeq(s, i, i + Len(pat) - 1) = pat
\* str::ends_with
EndsWith(s, suf) ==
    Len(s) >= Len(suf) /\ SubSeq(s, Len(s) - Len(suf) + 1, Len(s)) = suf
\* str::trim_end_matches(c): every trailing c is taken off
RECURSIVE TrimEndMatches(_, _)
TrimEndMatches(s, c) ==
    IF s # <<>> /\ s[Len(s)] = c THEN TrimEndMatches(SubSeq(s, 1, Len(s) - 1), c) ELSE s

\* str::split_whitespace: the maximal runs of non-whitespace characters
RECURSIVE SplitWhitespace(_)
SplitWhitespace(s) ==
    LET t == TrimStart(s)
        ws == {i \in 1..Len(t) : IsWhitespace(t[i])}
        n == IF ws = {} THEN Len(t) ELSE (CHOOSE i \in ws : \A k \in ws : i <= k) - 1
    IN IF t = <<>> THEN <<>>
       ELSE <<SubSeq(t, 1, n)>> \o SplitWhitespace(SubSeq(t, n + 1, Len(t)))

\* the find of the read loop changed to return the last matching token
FindFirst_returns_last(toks, suf) ==
    LET m == {i \in 1..Len(toks) : EndsWith(toks[i], suf)}
    IN IF m = {} THEN 0 ELSE CHOOSE i \in m : \A k \in m : i >= k

\* Iterator::find(|s| s.ends_with(suf)): the index of the first token that
\* ends with suf, 0 when there is none
FindFirst(toks, suf) ==
    LET m == {i \in 1..Len(toks) : EndsWith(toks[i], suf)}
    IN IF m = {} THEN 0 ELSE CHOOSE i \in m : \A k \in m : i <= k

\* str::parse::<f64> on the texts of the model: an optional sign, then digits
\* with an optional decimal point, at least one digit in all.  The lines of the
\* model have no digit but 0 after a decimal point, so every value parsed is a
\* whole number.  Anything else is a parse error.
DigitChars == <<"0", "1", "2", "3", "4", "5", "6", "7", "8", "9">>
IsDigit(c) == \E d \in 1..10 : DigitChars[d] = c
DigitVal(c) == (CHOOSE d \in 1..10 : DigitChars[d] = c) - 1
RECURSIVE DigitsVal(_)
DigitsVal(s) ==
    IF s = <<>> THEN 0 ELSE 10 * DigitsVal(SubSeq(s, 1, Len(s) - 1)) + DigitVal(s[Len(s)])
ParseF64(s) ==
    LET signed == s # <<>> /\ s[1] \in {"+", "-"}
        body == IF signed THEN Tail(s) ELSE s
        dots == {i \in 1..Len(body) : body[i] = "."}
        dot == IF dots = {} THEN Len(body) + 1 ELSE CHOOSE i \in dots : \A k \in dots : i <= k
        whole == SubSeq(body, 1, dot - 1)
        frac == SubSeq(body, dot + 1, Len(body))
        ok == /\ \A i \in 1..Len(whole) : IsDigit(whole[i])
              /\ \A i \in 1..Len(frac) : IsDigit(frac[i])
              /\ Len(whole) + Len(frac) > 0
    IN IF ok
       THEN [ok |-> TRUE,
             v |-> IF signed /\ s[1] = "-" THEN 0 - DigitsVal(whole) ELSE DigitsVal(whole)]
       ELSE [ok |-> FALSE, v |-> 0]

\* the progress branch changed to send Progress(0, "") for a percent that does
\* not parse
ProgressOf_zero_on_parse_error(line) ==
    IF Contains(line, <<"[download]">>) /\ Contains(line, <<"%">>)
    THEN LET toks == SplitWhitespace(line)
             pi == FindFirst(toks, <<"%">>)
             si == FindFirst(toks, <<"/", "s">>)
         IN IF pi > 0 /\ ParseF64(TrimEndMatches(toks[pi], "%")).ok
            THEN <<Progress(ParseF64(TrimEndMatches(toks[pi], "%")).v,
                            IF si > 0 THEN toks[si] ELSE Str(<<>>))>>
            ELSE <<Progress(0, Str(<<>>))>>
    ELSE <<>>

\* downloader.rs 175-185: the statuses the progress branch sends for a line
ProgressOf(line) ==
    IF Contains(line, <<"[download]">>) /\ Contains(line, <<"%">>)
    THEN LET toks == SplitWhitespace(line)
             pi == FindFirst(toks, <<"%">>)
             si == FindFirst(toks, <<"/", "s">>)
         IN IF pi > 0 /\ ParseF64(TrimEndMatches(toks[pi], "%")).ok
            THEN <<Progress(ParseF64(TrimEndMatches(toks[pi], "%")).v,
                            IF si > 0 THEN toks[si] ELSE Str(<<>>))>>
            ELSE <<>>
    ELSE <<>>

\* downloader.rs 187-189
ConvertingOf(line) ==
    IF Contains(line, <<"[ExtractAudio]">>) \/ Contains(line, <<"[Merger]">>)
    THEN <<Converting>>
    ELSE <<>>

\* downloader.rs 174-190: every status one stdout line produces, in order
LineStatuses(line) == ProgressOf(line) \o ConvertingOf(line)
\* downloader.rs 173-174: reader.lines() yields Err for a line that is not
\* UTF-8 (its bytes are consumed), and the loop body runs for Ok lines only
LinesItemOk(raw) == \A i \in 1..Len(raw) : raw[i] # "<FF>"
\* the statuses one turn of the read loop sends, for the lines a child prints,
\* computed once
ReadLineStatuses ==
    [raw \in ReadLines |-> IF LinesItemOk(raw) THEN LineStatuses(raw) ELSE <<>>]



\* the stop channel's Receiver is an argument of download_video until it is
\* moved into the killer thread (downloader.rs 40, 155-162)
StopRxAlive(j) == IF kpc[j] = "none" THEN wpc[j] # "done" ELSE kpc[j] # "done"

RECURSIVE SelectedFrom(_, _)
\* main.rs 237-240: the selected entries, in playlist order
SelectedFrom(sel, i) ==
    IF i > Len(sel) THEN <<>>
    ELSE (IF sel[i] THEN <<i>> ELSE <<>>) \o SelectedFrom(sel, i + 1)

\* the reader is blocked in a read of the child's stdout: the pipe is empty and
\* the child, which holds its write end, is alive
ReaderBlocked(j) ==
    wpc[j] = "read" /\ outPipe[j] = <<>> /\ child[j] \in {"running", "blocked"}

\* tx.send on the job's internal channel, statuses ss in order
SendAll(j, ss) ==
    /\ chan' = [chan EXCEPT ![j] = @ \o ss]
    /\ sent' = IF hist \in {"full", "lines"} THEN [sent EXCEPT ![j] = @ \o ss] ELSE sent

\* ---- the UI thread (main.rs) ------------------------------------------------
\* download_next changed to take the first entry of the queue for every job
download_next_takes_first(q, idx, st) ==
    IF idx >= Len(q)
    THEN /\ state' = "Finished"
         /\ progress_text' = "all_completed"
         /\ progress' = 100
         /\ stop_tx' = None
         /\ stopReq' = FALSE
         /\ UNCHANGED <<nJobs, jobEntry, wpc>>
    ELSE /\ nJobs < jobLimit
         /\ state' = st
         /\ progress' = 0
         /\ progress_text' = "preparing_video"
         /\ stop_tx' = nJobs + 1
         /\ nJobs' = nJobs + 1
         /\ wpc' = [wpc EXCEPT ![nJobs + 1] = "start"]
         /\ jobEntry' = [jobEntry EXCEPT ![nJobs + 1] = q[1]]
         /\ stopReq' = FALSE

\* download_next changed to keep the stop sender of the last job when the queue
\* is finished
download_next_keeps_sender(q, idx, st) ==
    IF idx >= Len(q)
    THEN /\ state' = "Finished"
         /\ progress_text' = "all_completed"
         /\ progress' = 100
         /\ stop_tx' = stop_tx
         /\ stopReq' = FALSE
         /\ UNCHANGED <<nJobs, jobEntry, wpc>>
    ELSE /\ nJobs < jobLimit
         /\ state' = st
         /\ progress' = 0
         /\ progress_text' = "preparing_video"
         /\ stop_tx' = nJobs + 1
         /\ nJobs' = nJobs + 1
         /\ wpc' = [wpc EXCEPT ![nJobs + 1] = "start"]
         /\ jobEntry' = [jobEntry EXCEPT ![nJobs + 1] = q[idx + 1]]
         /\ stopReq' = FALSE

\* main.rs 261-308; q, idx and st are self.download_queue, self.current_download_idx
\* and self.state as the caller has just set them
download_next(q, idx, st) ==
    IF idx >= Len(q)
    THEN /\ state' = "Finished"
         /\ progress_text' = "all_completed"
         /\ progress' = 100
         /\ stop_tx' = None
         /\ stopReq' = FALSE
         /\ UNCHANGED <<nJobs, jobEntry, wpc>>
    ELSE /\ nJobs < jobLimit
         /\ state' = st
         /\ progress' = 0
         /\ progress_text' = "preparing_video"
         /\ stop_tx' = nJobs + 1
         /\ nJobs' = nJobs + 1
         /\ wpc' = [wpc EXCEPT ![nJobs + 1] = "start"]
         /\ jobEntry' = [jobEntry EXCEPT ![nJobs + 1] = q[idx + 1]]
         /\ stopReq' = FALSE

\* main.rs 220-231
start_analysis ==
    /\ state \in {"Input", "Ready", "Finished"}
    /\ nAnalyses < MaxAnalyses
    /\ nAnalyses' = nAnalyses + 1
    /\ state' = "Analyzing"
    /\ error_msg' = ""
    /\ analysis' = "running"
    /\ UNCHANGED <<playlist_info, download_queue, current_download_idx, progress,
                   progress_text, stop_tx, rx_ui>>
    /\ UNCHANGED <<nJobs, jobEntry, wpc, kpc, mutex, child, exitc, outPipe, nLines, errFill,
                   chan, stopBuf>>
    /\ UNCHANGED <<sent, seen, uiPhase, stopReq, selfExit, printed, midReadStop, jobLimit, hist>>
    /\ UNCHANGED <<bootVars, pureVars>>

\* main.rs 227-230 with playlist.rs 101-174: the analysis thread's result
analysis_thread(ok, n) ==
    /\ analysis = "running"
    /\ analysis' = "idle"
    /\ rx_ui' = Append(rx_ui, AnalysisDone(ok, n))
    /\ UNCHANGED <<state, playlist_info, download_queue, current_download_idx,
                   progress, progress_text, error_msg, stop_tx>>
    /\ UNCHANGED <<nJobs, jobEntry, wpc, kpc, mutex, child, exitc, outPipe, nLines, errFill,
                   chan, stopBuf>>
    /\ UNCHANGED histVars
    /\ UNCHANGED <<bootVars, pureVars>>

\* main.rs 658: the checkbox of entry i
toggle_selected(i) ==
    /\ state = "Ready"
    /\ playlist_info.some
    /\ i \in 1..Len(playlist_info.selected)
    /\ playlist_info' = [playlist_info EXCEPT !.selected[i] = ~@]
    /\ UNCHANGED <<state, download_queue, current_download_idx, progress,
                   progress_text, error_msg, stop_tx, rx_ui>>
    /\ UNCHANGED jobVars
    /\ UNCHANGED histVars
    /\ UNCHANGED <<bootVars, pureVars>>

\* main.rs 233-250, called from the button of main.rs 588-593
start_download ==
    /\ state = "Ready"
    /\ playlist_info.some
    /\ LET q == SelectedFrom(playlist_info.selected, 1) IN
         /\ download_queue' = q
         /\ IF q = <<>>
            THEN /\ error_msg' = "no_selection"
                 /\ UNCHANGED <<state, current_download_idx, progress, progress_text,
                                stop_tx, nJobs, jobEntry, wpc, stopReq>>
            ELSE /\ nJobs + Len(q) <= jobLimit
                 /\ current_download_idx' = 0
                 /\ download_next(q, 0, "Downloading")
                 /\ UNCHANGED error_msg
    /\ UNCHANGED <<playlist_info, rx_ui>>
    /\ UNCHANGED <<kpc, mutex, child, exitc, outPipe, nLines, errFill,
                   chan, stopBuf, analysis>>
    /\ UNCHANGED <<sent, seen, uiPhase, nAnalyses, selfExit, printed, midReadStop, jobLimit, hist>>
    /\ UNCHANGED <<bootVars, pureVars>>

\* stop_download changed to return to the list at once instead of waiting for
\* the job's terminal status
stop_download_leaves_downloading ==
    /\ state = "Downloading"
    /\ stop_tx # None => stopBuf[stop_tx] < MaxStops
    /\ stopBuf' = IF stop_tx # None /\ StopRxAlive(stop_tx)
                  THEN [stopBuf EXCEPT ![stop_tx] = @ + 1]
                  ELSE stopBuf
    /\ progress_text' = "download_stopped"
    /\ stopReq' = TRUE
    /\ midReadStop' = IF hist \in {"full", "lines"} /\ stop_tx # None /\ ReaderBlocked(stop_tx)
                      THEN [midReadStop EXCEPT ![stop_tx] = TRUE]
                      ELSE midReadStop
    /\ state' = "Ready"
    /\ stop_tx' = None
    /\ UNCHANGED <<playlist_info, download_queue, current_download_idx,
                   progress, error_msg, rx_ui>>
    /\ UNCHANGED <<nJobs, jobEntry, wpc, kpc, mutex, child, exitc, outPipe, nLines, errFill,
                   chan, analysis>>
    /\ UNCHANGED <<sent, seen, uiPhase, nAnalyses, selfExit, printed, jobLimit, hist>>
    /\ UNCHANGED <<bootVars, pureVars>>

\* stop_download changed to take the sender out of stop_tx when it fires it
stop_download_takes_sender ==
    /\ state = "Downloading"
    /\ stop_tx # None => stopBuf[stop_tx] < MaxStops
    /\ stopBuf' = IF stop_tx # None /\ StopRxAlive(stop_tx)
                  THEN [stopBuf EXCEPT ![stop_tx] = @ + 1]
                  ELSE stopBuf
    /\ progress_text' = "download_stopped"
    /\ stopReq' = TRUE
    /\ midReadStop' = IF hist \in {"full", "lines"} /\ stop_tx # None /\ ReaderBlocked(stop_tx)
                      THEN [midReadStop EXCEPT ![stop_tx] = TRUE]
                      ELSE midReadStop
    /\ state' = state
    /\ stop_tx' = None
    /\ UNCHANGED <<playlist_info, download_queue, current_download_idx,
                   progress, error_msg, rx_ui>>
    /\ UNCHANGED <<nJobs, jobEntry, wpc, kpc, mutex, child, exitc, outPipe, nLines, errFill,
                   chan, analysis>>
    /\ UNCHANGED <<sent, seen, uiPhase, nAnalyses, selfExit, printed, jobLimit, hist>>
    /\ UNCHANGED <<bootVars, pureVars>>

\* stop_download changed to hand the signal over only to a killer thread that
\* is already waiting for it, as a channel without a buffer would
stop_download_unbuffered ==
    /\ state = "Downloading"
    /\ stop_tx # None => stopBuf[stop_tx] < MaxStops
    /\ stopBuf' = IF stop_tx # None /\ kpc[stop_tx] = "recv"
                  THEN [stopBuf EXCEPT ![stop_tx] = @ + 1]
                  ELSE stopBuf
    /\ progress_text' = "download_stopped"
    /\ stopReq' = TRUE
    /\ midReadStop' = IF hist \in {"full", "lines"} /\ stop_tx # None /\ ReaderBlocked(stop_tx)
                      THEN [midReadStop EXCEPT ![stop_tx] = TRUE]
                      ELSE midReadStop
    /\ UNCHANGED <<state, playlist_info, download_queue, current_download_idx,
                   progress, error_msg, stop_tx, rx_ui>>
    /\ UNCHANGED <<nJobs, jobEntry, wpc, kpc, mutex, child, exitc, outPipe, nLines, errFill,
                   chan, analysis>>
    /\ UNCHANGED <<sent, seen, uiPhase, nAnalyses, selfExit, printed, jobLimit, hist>>
    /\ UNCHANGED <<bootVars, pureVars>>

\* main.rs 252-259, called from the button of main.rs 607-609
stop_download ==
    /\ state = "Downloading"
    /\ stop_tx # None => stopBuf[stop_tx] < MaxStops
    /\ stopBuf' = IF stop_tx # None /\ StopRxAlive(stop_tx)
                  THEN [stopBuf EXCEPT ![stop_tx] = @ + 1]
                  ELSE stopBuf
    /\ progress_text' = "download_stopped"
    /\ stopReq' = TRUE
    /\ midReadStop' = IF hist \in {"full", "lines"} /\ stop_tx # None /\ ReaderBlocked(stop_tx)
                      THEN [midReadStop EXCEPT ![stop_tx] = TRUE]
                      ELSE midReadStop
    /\ UNCHANGED <<state, playlist_info, download_queue, current_download_idx,
                   progress, error_msg, stop_tx, rx_ui>>
    /\ UNCHANGED <<nJobs, jobEntry, wpc, kpc, mutex, child, exitc, outPipe, nLines, errFill,
                   chan, analysis>>
    /\ UNCHANGED <<sent, seen, uiPhase, nAnalyses, selfExit, printed, jobLimit, hist>>
    /\ UNCHANGED <<bootVars, pureVars>>

\* main.rs 623-627
back_to_list ==
    /\ state = "Finished"
    /\ state' = "Ready"
    /\ current_download_idx' = 0
    /\ progress' = 0
    /\ UNCHANGED <<playlist_info, download_queue, progress_text, error_msg, stop_tx, rx_ui>>
    /\ UNCHANGED jobVars
    /\ UNCHANGED histVars
    /\ UNCHANGED <<bootVars, pureVars>>

\* main.rs 354-365
on_analysis_done(m) ==
    /\ IF m.st.kind = "Ok"
       THEN /\ playlist_info' = [some |-> TRUE, selected |-> [i \in 1..m.st.pct |-> TRUE]]
            /\ state' = "Ready"
            /\ UNCHANGED error_msg
       ELSE /\ error_msg' = "analysis_error"
            /\ state' = "Input"
            /\ UNCHANGED playlist_info
    /\ UNCHANGED <<download_queue, current_download_idx, progress, progress_text, stop_tx>>
    /\ UNCHANGED <<nJobs, jobEntry, wpc, stopReq, seen, uiPhase>>

\* update changed to start the failed job again when it handles Failed
on_download_progress_retries_failed(m) ==
    /\ seen' = IF hist \in {"full", "lines"} \/ (hist = "queue" /\ IsTerminal(m.st))
               THEN [seen EXCEPT ![m.job] = Append(@, m.st)]
               ELSE seen
    /\ uiPhase' = [uiPhase EXCEPT ![m.job] = IF IsTerminal(m.st) THEN "terminal" ELSE "running"]
    /\ CASE m.st.kind = "Starting" ->
              /\ progress_text' = m.st.text
              /\ progress' = 0
              /\ UNCHANGED <<state, current_download_idx, error_msg, stop_tx,
                             nJobs, jobEntry, wpc, stopReq>>
         [] m.st.kind = "Progress" ->
              /\ progress' = m.st.pct
              /\ progress_text' = "progress"
              /\ UNCHANGED <<state, current_download_idx, error_msg, stop_tx,
                             nJobs, jobEntry, wpc, stopReq>>
         [] m.st.kind = "Converting" ->
              /\ progress_text' = "converting"
              /\ UNCHANGED <<state, current_download_idx, progress, error_msg, stop_tx,
                             nJobs, jobEntry, wpc, stopReq>>
         [] m.st.kind = "Completed" ->
              /\ current_download_idx' = current_download_idx + 1
              /\ download_next(download_queue, current_download_idx + 1, state)
              /\ UNCHANGED error_msg
         [] m.st.kind = "Failed" ->
              /\ download_next(download_queue, current_download_idx, state)
              /\ UNCHANGED <<current_download_idx, error_msg>>
         [] m.st.kind = "Stopped" ->
              /\ state' = "Ready"
              /\ progress_text' = "download_stopped"
              /\ stop_tx' = None
              /\ stopReq' = FALSE
              /\ UNCHANGED <<current_download_idx, progress, error_msg, nJobs, jobEntry, wpc>>
    /\ UNCHANGED <<playlist_info, download_queue>>

\* update changed to go on with the next entry when it handles Failed
on_download_progress_skips_failed(m) ==
    /\ seen' = IF hist \in {"full", "lines"} \/ (hist = "queue" /\ IsTerminal(m.st))
               THEN [seen EXCEPT ![m.job] = Append(@, m.st)]
               ELSE seen
    /\ uiPhase' = [uiPhase EXCEPT ![m.job] = IF IsTerminal(m.st) THEN "terminal" ELSE "running"]
    /\ CASE m.st.kind = "Starting" ->
              /\ progress_text' = m.st.text
              /\ progress' = 0
              /\ UNCHANGED <<state, current_download_idx, error_msg, stop_tx,
                             nJobs, jobEntry, wpc, stopReq>>
         [] m.st.kind = "Progress" ->
              /\ progress' = m.st.pct
              /\ progress_text' = "progress"
              /\ UNCHANGED <<state, current_download_idx, error_msg, stop_tx,
                             nJobs, jobEntry, wpc, stopReq>>
         [] m.st.kind = "Converting" ->
              /\ progress_text' = "converting"
              /\ UNCHANGED <<state, current_download_idx, progress, error_msg, stop_tx,
                             nJobs, jobEntry, wpc, stopReq>>
         [] m.st.kind = "Completed" ->
              /\ current_download_idx' = current_download_idx + 1
              /\ download_next(download_queue, current_download_idx + 1, state)
              /\ UNCHANGED error_msg
         [] m.st.kind = "Failed" ->
              /\ current_download_idx' = current_download_idx + 1
              /\ download_next(download_queue, current_download_idx + 1, state)
              /\ UNCHANGED error_msg
         [] m.st.kind = "Stopped" ->
              /\ state' = "Ready"
              /\ progress_text' = "download_stopped"
              /\ stop_tx' = None
              /\ stopReq' = FALSE
              /\ UNCHANGED <<current_download_idx, progress, error_msg, nJobs, jobEntry, wpc>>
    /\ UNCHANGED <<playlist_info, download_queue>>

\* main.rs 366-400
on_download_progress(m) ==
    /\ seen' = IF hist \in {"full", "lines"} \/ (hist = "queue" /\ IsTerminal(m.st))
               THEN [seen EXCEPT ![m.job] = Append(@, m.st)]
               ELSE seen
    /\ uiPhase' = [uiPhase EXCEPT ![m.job] = IF IsTerminal(m.st) THEN "terminal" ELSE "running"]
    /\ CASE m.st.kind = "Starting" ->
              /\ progress_text' = m.st.text
              /\ progress' = 0
              /\ UNCHANGED <<state, current_download_idx, error_msg, stop_tx,
                             nJobs, jobEntry, wpc, stopReq>>
         [] m.st.kind = "Progress" ->
              /\ progress' = m.st.pct
              /\ progress_text' = "progress"
              /\ UNCHANGED <<state, current_download_idx, error_msg, stop_tx,
                             nJobs, jobEntry, wpc, stopReq>>
         [] m.st.kind = "Converting" ->
              /\ progress_text' = "converting"
              /\ UNCHANGED <<state, current_download_idx, progress, error_msg, stop_tx,
                             nJobs, jobEntry, wpc, stopReq>>
         [] m.st.kind = "Completed" ->
              /\ current_download_idx' = current_download_idx + 1
              /\ download_next(download_queue, current_download_idx + 1, state)
              /\ UNCHANGED error_msg
         [] m.st.kind = "Failed" ->
              /\ IF progress_text = "download_stopped"
                 THEN /\ state' = "Ready"
                      /\ progress_text' = "download_stopped"
                      /\ UNCHANGED error_msg
                 ELSE /\ progress_text' = "error"
                      /\ error_msg' = "download_paused"
                      /\ state' = "Ready"
              /\ stop_tx' = None
              /\ stopReq' = FALSE
              /\ UNCHANGED <<current_download_idx, progress, nJobs, jobEntry, wpc>>
         [] m.st.kind = "Stopped" ->
              /\ state' = "Ready"
              /\ progress_text' = "download_stopped"
              /\ stop_tx' = None
              /\ stopReq' = FALSE
              /\ UNCHANGED <<current_download_idx, progress, error_msg, nJobs, jobEntry, wpc>>
    /\ UNCHANGED <<playlist_info, download_queue>>

\* update changed to go on to the input screen when the bootstrap failed
on_init_status_failed_to_input(m) ==
    /\ CASE m.st.kind = "Starting" ->
              /\ init_status' = m.st.text
              /\ init_progress' = 0
              /\ UNCHANGED <<state, error_msg>>
         [] m.st.kind = "Downloading" ->
              /\ init_progress' = m.st.pct
              /\ init_status' = "downloading"
              /\ UNCHANGED <<state, error_msg>>
         [] m.st.kind = "Extracting" ->
              /\ init_status' = m.st.text
              /\ init_progress' = 100
              /\ UNCHANGED <<state, error_msg>>
         [] m.st.kind = "Completed" ->
              /\ state' = IF skip_set_path THEN "Input" ELSE "SetPath"
              /\ UNCHANGED <<error_msg, init_status, init_progress>>
         [] m.st.kind = "Failed" ->
              /\ error_msg' = "init_failed"
              /\ state' = IF skip_set_path THEN "Input" ELSE "SetPath"
              /\ UNCHANGED <<init_status, init_progress>>
    /\ UNCHANGED <<playlist_info, download_queue, current_download_idx, progress,
                   progress_text, stop_tx>>
    /\ UNCHANGED <<nJobs, jobEntry, wpc, stopReq, seen, uiPhase>>

\* main.rs 326-353
on_init_status(m) ==
    /\ CASE m.st.kind = "Starting" ->
              /\ init_status' = m.st.text
              /\ init_progress' = 0
              /\ UNCHANGED <<state, error_msg>>
         [] m.st.kind = "Downloading" ->
              /\ init_progress' = m.st.pct
              /\ init_status' = "downloading"
              /\ UNCHANGED <<state, error_msg>>
         [] m.st.kind = "Extracting" ->
              /\ init_status' = m.st.text
              /\ init_progress' = 100
              /\ UNCHANGED <<state, error_msg>>
         [] m.st.kind = "Completed" ->
              /\ state' = IF skip_set_path THEN "Input" ELSE "SetPath"
              /\ UNCHANGED <<error_msg, init_status, init_progress>>
         [] m.st.kind = "Failed" ->
              /\ error_msg' = "init_failed"
              /\ state' = "SetPath"
              /\ UNCHANGED <<init_status, init_progress>>
    /\ UNCHANGED <<playlist_info, download_queue, current_download_idx, progress,
                   progress_text, stop_tx>>
    /\ UNCHANGED <<nJobs, jobEntry, wpc, stopReq, seen, uiPhase>>

\* main.rs 324-402: update() handles the next message of rx_ui
update ==
    /\ rx_ui # <<>>
    /\ rx_ui' = Tail(rx_ui)
    /\ CASE Head(rx_ui).tag = "InitStatus" -> on_init_status(Head(rx_ui))
         [] Head(rx_ui).tag = "AnalysisDone" ->
              on_analysis_done(Head(rx_ui)) /\ UNCHANGED <<init_status, init_progress>>
         [] Head(rx_ui).tag = "DownloadProgress" ->
              on_download_progress(Head(rx_ui)) /\ UNCHANGED <<init_status, init_progress>>
    /\ UNCHANGED <<kpc, mutex, child, exitc, outPipe, nLines, errFill,
                   chan, stopBuf, analysis>>
    /\ UNCHANGED <<sent, nAnalyses, selfExit, printed, midReadStop, jobLimit, hist>>
    /\ UNCHANGED <<platform, files0, files, ipc, dlVars, zipVars, init_rx, irelay, init_sent,
                   skip_set_path>>
    /\ UNCHANGED pureVars


\* ---- download_video: the worker thread (downloader.rs 36-215) ---------------
uiFrame == UNCHANGED uiVars

\* downloader.rs 127
send_starting(j) ==
    /\ wpc[j] = "start"
    /\ SendAll(j, <<Starting("download_starting")>>)
    /\ wpc' = [wpc EXCEPT ![j] = "spawn"]
    /\ UNCHANGED <<nJobs, jobEntry, kpc, mutex, child, exitc, outPipe, nLines, errFill,
                   stopBuf, analysis>>
    /\ UNCHANGED <<seen, uiPhase, stopReq, nAnalyses, selfExit, printed, midReadStop, jobLimit, hist>>
    /\ UNCHANGED <<bootVars, pureVars>>
    /\ uiFrame

\* spawn_child changed to start the killer thread before the result of the
\* spawn is looked at
spawn_child_killer_first(j, ok) ==
    /\ wpc[j] = "spawn"
    /\ kpc' = [kpc EXCEPT ![j] = "recv"]
    /\ IF ok
       THEN /\ child' = [child EXCEPT ![j] = "running"]
            /\ wpc' = [wpc EXCEPT ![j] = "read"]
            /\ UNCHANGED <<chan, sent, stopBuf>>
       ELSE /\ SendAll(j, <<Failed("spawn_error")>>)
            /\ wpc' = [wpc EXCEPT ![j] = "done"]
            /\ UNCHANGED <<child, stopBuf>>
    /\ UNCHANGED <<nJobs, jobEntry, mutex, exitc, outPipe, nLines, errFill, analysis>>
    /\ UNCHANGED <<seen, uiPhase, stopReq, nAnalyses, selfExit, printed, midReadStop, jobLimit, hist>>
    /\ UNCHANGED <<bootVars, pureVars>>
    /\ uiFrame

\* downloader.rs 129-169: command.spawn(); on success the killer thread is started
\* and the worker takes the child's stdout under the lock, which is free: the lock
\* is only ever held across a call that blocks by the worker itself, in c.wait()
spawn_child(j, ok) ==
    /\ wpc[j] = "spawn"
    /\ IF ok
       THEN /\ child' = [child EXCEPT ![j] = "running"]
            /\ kpc' = [kpc EXCEPT ![j] = "recv"]
            /\ wpc' = [wpc EXCEPT ![j] = "read"]
            /\ UNCHANGED <<chan, sent, stopBuf>>
       ELSE /\ SendAll(j, <<Failed("spawn_error")>>)
            /\ wpc' = [wpc EXCEPT ![j] = "done"]
            /\ stopBuf' = [stopBuf EXCEPT ![j] = 0]
            /\ UNCHANGED <<child, kpc>>
    /\ UNCHANGED <<nJobs, jobEntry, mutex, exitc, outPipe, nLines, errFill, analysis>>
    /\ UNCHANGED <<seen, uiPhase, stopReq, nAnalyses, selfExit, printed, midReadStop, jobLimit, hist>>
    /\ UNCHANGED <<bootVars, pureVars>>
    /\ uiFrame

\* downloader.rs 173-190: one iteration of the loop over reader.lines()
read_line(j) ==
    /\ wpc[j] = "read"
    /\ outPipe[j] # <<>>
    /\ outPipe' = [outPipe EXCEPT ![j] = Tail(@)]
    /\ SendAll(j, ReadLineStatuses[Head(outPipe[j])])
    /\ UNCHANGED <<nJobs, jobEntry, wpc, kpc, mutex, child, exitc, nLines, errFill,
                   stopBuf, analysis>>
    /\ UNCHANGED <<seen, uiPhase, stopReq, nAnalyses, selfExit, printed, midReadStop, jobLimit, hist>>
    /\ UNCHANGED <<bootVars, pureVars>>
    /\ uiFrame

\* downloader.rs 173, 191-198: lines() ends when the pipe is empty and its write
\* end is closed; the worker then takes the lock and blocks in c.wait() holding it
read_eof(j) ==
    /\ wpc[j] = "read"
    /\ outPipe[j] = <<>>
    /\ child[j] \notin {"running", "blocked"}
    /\ mutex[j] = "free"
    /\ mutex' = [mutex EXCEPT ![j] = "worker"]
    /\ wpc' = [wpc EXCEPT ![j] = "waiting"]
    /\ UNCHANGED <<nJobs, jobEntry, kpc, child, exitc, outPipe, nLines, errFill,
                   chan, stopBuf, analysis>>
    /\ UNCHANGED histVars
    /\ UNCHANGED <<bootVars, pureVars>>
    /\ uiFrame

\* main.rs 270, 293-297: the title download_next hands to download_video is the
\* title of the queue entry it took at current_download_idx
JobTitle(j) == TitleOf(jobEntry[j])

\* download_video changed to report Stopped for a child that was killed
terminal_status_reports_stopped(j, waitOk) ==
    IF waitOk
    THEN IF exitc[j] = "success"
         THEN Completed(JobTitle(j))
         ELSE IF exitc[j] = "killed" THEN Stopped ELSE Failed("download_failed_or_stopped")
    ELSE Failed("wait_error")

\* downloader.rs 201-214: the terminal status for the result of c.wait()
terminal_status(j, waitOk) ==
    IF waitOk
    THEN IF exitc[j] = "success"
         THEN Completed(JobTitle(j))
         ELSE Failed("download_failed_or_stopped")
    ELSE Failed("wait_error")

\* downloader.rs 198-215: c.wait() returns, the lock is released, the terminal
\* status is sent and download_video returns, which drops the Child with its pipes
wait_return(j, waitOk) ==
    /\ wpc[j] = "waiting"
    /\ child[j] = "exited"
    /\ child' = [child EXCEPT ![j] = "reaped"]
    /\ exitc' = [exitc EXCEPT ![j] = "none"]
    /\ mutex' = [mutex EXCEPT ![j] = "free"]
    /\ SendAll(j, <<terminal_status(j, waitOk)>>)
    /\ wpc' = [wpc EXCEPT ![j] = "done"]
    /\ errFill' = [errFill EXCEPT ![j] = 0]
    /\ nLines' = [nLines EXCEPT ![j] = 0]
    /\ UNCHANGED <<nJobs, jobEntry, kpc, outPipe, stopBuf, analysis>>
    /\ UNCHANGED <<seen, uiPhase, stopReq, nAnalyses, selfExit, printed, midReadStop, jobLimit, hist>>
    /\ UNCHANGED <<bootVars, pureVars>>
    /\ uiFrame

\* ---- the killer thread (downloader.rs 155-162) -------------------------------
\* stop_signal.recv() returns Err: the channel is empty and MyApp dropped the
\* Sender; the thread ends
killer_recv_err(j) ==
    /\ kpc[j] = "recv"
    /\ stopBuf[j] = 0
    /\ stop_tx # j
    /\ kpc' = [kpc EXCEPT ![j] = "done"]
    /\ UNCHANGED <<nJobs, jobEntry, wpc, mutex, child, exitc, outPipe, nLines, errFill,
                   chan, stopBuf, analysis>>
    /\ UNCHANGED histVars
    /\ UNCHANGED <<bootVars, pureVars>>
    /\ uiFrame

\* the killer thread changed to report Stopped itself after the kill
killer_kill_sends_stopped(j) ==
    /\ kpc[j] = "recv"
    /\ stopBuf[j] > 0
    /\ mutex[j] = "free"
    /\ kpc' = [kpc EXCEPT ![j] = "done"]
    /\ IF child[j] \in {"running", "blocked", "closed_out"}
       THEN /\ child' = [child EXCEPT ![j] = "exited"]
            /\ exitc' = [exitc EXCEPT ![j] = "killed"]
       ELSE UNCHANGED <<child, exitc>>
    /\ SendAll(j, <<Stopped>>)
    /\ stopBuf' = [stopBuf EXCEPT ![j] = 0]
    /\ UNCHANGED <<nJobs, jobEntry, wpc, mutex, outPipe, nLines, errFill, analysis>>
    /\ UNCHANGED <<seen, uiPhase, stopReq, nAnalyses, selfExit, printed, midReadStop, jobLimit, hist>>
    /\ UNCHANGED <<bootVars, pureVars>>
    /\ uiFrame

\* the killer thread changed to take the signal and leave the child alone
killer_kill_no_kill(j) ==
    /\ kpc[j] = "recv"
    /\ stopBuf[j] > 0
    /\ mutex[j] = "free"
    /\ kpc' = [kpc EXCEPT ![j] = "done"]
    /\ stopBuf' = [stopBuf EXCEPT ![j] = 0]
    /\ UNCHANGED <<nJobs, jobEntry, wpc, mutex, child, exitc, outPipe, nLines, errFill, chan, analysis>>
    /\ UNCHANGED histVars
    /\ UNCHANGED <<bootVars, pureVars>>
    /\ uiFrame

\* kill changed to overwrite the exit status of a child that has already exited
killer_kill_overwrites_exit(j) ==
    /\ kpc[j] = "recv"
    /\ stopBuf[j] > 0
    /\ mutex[j] = "free"
    /\ kpc' = [kpc EXCEPT ![j] = "done"]
    /\ IF child[j] \in {"running", "blocked", "closed_out", "exited"}
       THEN /\ child' = [child EXCEPT ![j] = "exited"]
            /\ exitc' = [exitc EXCEPT ![j] = "killed"]
       ELSE UNCHANGED <<child, exitc>>
    /\ stopBuf' = [stopBuf EXCEPT ![j] = 0]
    /\ UNCHANGED <<nJobs, jobEntry, wpc, mutex, outPipe, nLines, errFill, chan, analysis>>
    /\ UNCHANGED histVars
    /\ UNCHANGED <<bootVars, pureVars>>
    /\ uiFrame

\* downloader.rs 156-160: stop_signal.recv() returns Ok, then lock, c.kill(),
\* unlock.  kill ends a running child and leaves one that has exited as it is.
\* The thread ends and drops the Receiver, which frees what the channel holds.
killer_kill(j) ==
    /\ kpc[j] = "recv"
    /\ stopBuf[j] > 0
    /\ mutex[j] = "free"
    /\ kpc' = [kpc EXCEPT ![j] = "done"]
    /\ IF child[j] \in {"running", "blocked", "closed_out"}
       THEN /\ child' = [child EXCEPT ![j] = "exited"]
            /\ exitc' = [exitc EXCEPT ![j] = "killed"]
       ELSE UNCHANGED <<child, exitc>>
    /\ stopBuf' = [stopBuf EXCEPT ![j] = 0]
    /\ UNCHANGED <<nJobs, jobEntry, wpc, mutex, outPipe, nLines, errFill, chan, analysis>>
    /\ UNCHANGED histVars
    /\ UNCHANGED <<bootVars, pureVars>>
    /\ uiFrame

\* main.rs 289-298: the senders of the internal channel of job j.  The relay
\* thread creates the channel and keeps tx_internal in scope for as long as it
\* runs; download_video owns the clone until it returns.
TxInternalHolders(j) ==
    (IF wpc[j] # "none" THEN {"relay"} ELSE {})
        \cup (IF wpc[j] \notin {"none", "done"} THEN {"worker"} ELSE {})
\* main.rs 301: what rx_internal.recv() of the relay thread of job j does: it
\* returns a status, returns Err when the channel is empty and every sender is
\* dropped, and blocks otherwise
RelayRecv(j) ==
    IF chan[j] # <<>> THEN "status"
    ELSE IF TxInternalHolders(j) = {} THEN "err"
    ELSE "blocked"

\* ---- the relay thread (main.rs 288-307) --------------------------------------
\* the relay changed to forward only the newest status when several are waiting
relay_skips_to_newest(j) ==
    /\ chan[j] # <<>>
    /\ chan' = [chan EXCEPT ![j] = <<>>]
    /\ rx_ui' = Append(rx_ui, DownloadProgress(chan[j][Len(chan[j])], j))
    /\ UNCHANGED <<state, playlist_info, download_queue, current_download_idx,
                   progress, progress_text, error_msg, stop_tx>>
    /\ UNCHANGED <<nJobs, jobEntry, wpc, kpc, mutex, child, exitc, outPipe, nLines, errFill,
                   stopBuf, analysis>>
    /\ UNCHANGED histVars
    /\ UNCHANGED <<bootVars, pureVars>>

\* the relay changed to forward the newest waiting status first
relay_newest_first(j) ==
    /\ RelayRecv(j) = "status"
    /\ chan[j] # <<>>
    /\ chan' = [chan EXCEPT ![j] = SubSeq(@, 1, Len(@) - 1)]
    /\ rx_ui' = Append(rx_ui, DownloadProgress(chan[j][Len(chan[j])], j))
    /\ UNCHANGED <<state, playlist_info, download_queue, current_download_idx,
                   progress, progress_text, error_msg, stop_tx>>
    /\ UNCHANGED <<nJobs, jobEntry, wpc, kpc, mutex, child, exitc, outPipe, nLines, errFill,
                   stopBuf, analysis>>
    /\ UNCHANGED histVars
    /\ UNCHANGED <<bootVars, pureVars>>

\* main.rs 300-306: the relay forwards the next status of rx_internal to the UI
relay(j) ==
    /\ RelayRecv(j) = "status"
    /\ chan[j] # <<>>
    /\ chan' = [chan EXCEPT ![j] = Tail(@)]
    /\ rx_ui' = Append(rx_ui, DownloadProgress(Head(chan[j]), j))
    /\ UNCHANGED <<state, playlist_info, download_queue, current_download_idx,
                   progress, progress_text, error_msg, stop_tx>>
    /\ UNCHANGED <<nJobs, jobEntry, wpc, kpc, mutex, child, exitc, outPipe, nLines, errFill,
                   stopBuf, analysis>>
    /\ UNCHANGED histVars
    /\ UNCHANGED <<bootVars, pureVars>>

\* ---- the child process (yt-dlp), spawned with stdout and stderr piped --------
\* (downloader.rs 129-133)
child_write_stdout(j, line) ==
    /\ child[j] = "running"
    /\ nLines[j] < MaxLines
    /\ Len(outPipe[j]) < PipeCap
    /\ outPipe' = [outPipe EXCEPT ![j] = Append(@, line)]
    /\ nLines' = [nLines EXCEPT ![j] = @ + 1]
    /\ printed' = IF hist \in {"full", "lines"} THEN [printed EXCEPT ![j] = Append(@, line)] ELSE printed
    /\ UNCHANGED <<nJobs, jobEntry, wpc, kpc, mutex, child, exitc, errFill, chan,
                   stopBuf, analysis>>
    /\ UNCHANGED <<sent, seen, uiPhase, stopReq, nAnalyses, selfExit, midReadStop, jobLimit, hist>>
    /\ UNCHANGED <<bootVars, pureVars>>
    /\ uiFrame

\* the stderr pipe is created by Stdio::piped() and no code reads it: a write
\* returns while the pipe has room
child_write_stderr(j) ==
    /\ child[j] = "running"
    /\ errFill[j] < PipeCap
    /\ errFill' = [errFill EXCEPT ![j] = @ + 1]
    /\ UNCHANGED <<nJobs, jobEntry, wpc, kpc, mutex, child, exitc, outPipe, nLines, chan,
                   stopBuf, analysis>>
    /\ UNCHANGED histVars
    /\ UNCHANGED <<bootVars, pureVars>>
    /\ uiFrame

\* a write to the full stderr pipe does not return
child_block_stderr(j) ==
    /\ child[j] = "running"
    /\ errFill[j] = PipeCap
    /\ child' = [child EXCEPT ![j] = "blocked"]
    /\ UNCHANGED <<nJobs, jobEntry, wpc, kpc, mutex, exitc, outPipe, nLines, errFill, chan,
                   stopBuf, analysis>>
    /\ UNCHANGED histVars
    /\ UNCHANGED <<bootVars, pureVars>>
    /\ uiFrame

\* the child closes its stdout and goes on running: the read loop of the
\* supervisor then sees the end of the stream while the child is alive.  yt-dlp
\* keeps its stdout open until it exits; a child that closes it early is
\* a step of WaitSpec only.
child_close_stdout(j) ==
    /\ child[j] = "running"
    /\ child' = [child EXCEPT ![j] = "closed_out"]
    /\ UNCHANGED <<nJobs, jobEntry, wpc, kpc, mutex, exitc, outPipe, nLines, errFill, chan,
                   stopBuf, analysis>>
    /\ UNCHANGED histVars
    /\ UNCHANGED <<bootVars, pureVars>>
    /\ uiFrame

\* the child exits by itself
child_exit(j, code) ==
    /\ child[j] \in {"running", "closed_out"}
    /\ child' = [child EXCEPT ![j] = "exited"]
    /\ exitc' = [exitc EXCEPT ![j] = code]
    /\ selfExit' = IF hist \in {"full", "lines"} THEN [selfExit EXCEPT ![j] = code] ELSE selfExit
    /\ UNCHANGED <<nJobs, jobEntry, wpc, kpc, mutex, outPipe, nLines, errFill, chan,
                   stopBuf, analysis>>
    /\ UNCHANGED <<sent, seen, uiPhase, stopReq, nAnalyses, printed, midReadStop, jobLimit, hist>>
    /\ UNCHANGED <<bootVars, pureVars>>
    /\ uiFrame

\* ---- the bootstrap (initializer.rs, main.rs 165-192) ---------------------------
\* InitStatus (initializer.rs 8-14); init_progress is kept in percent
InitStarting(msg) == [kind |-> "Starting", pct |-> 0, text |-> msg]
InitDownloading(p, file) == [kind |-> "Downloading", pct |-> p, text |-> file]
InitExtracting(msg) == [kind |-> "Extracting", pct |-> 0, text |-> msg]
InitCompleted == [kind |-> "Completed", pct |-> 0, text |-> ""]
InitFailed(msg) == [kind |-> "Failed", pct |-> 0, text |-> msg]
IsInitTerminal(s) == s.kind \in {"Completed", "Failed"}
InitStatusMsg(s) == [tag |-> "InitStatus", st |-> s, job |-> 0]

Platforms == {"linux", "macos", "windows"}
\* initializer.rs 250-264: the archive is a tar.xz on linux and a zip elsewhere
ArchiveIsZip == platform # "linux"
\* the names of the entries of a zip archive: the ffmpeg binary or anything else
EntrySeqs == UNION {[1..n -> {"ffmpeg", "other"}] : n \in 0..MaxEntries}
\* the file download_file writes: download_ytdlp passes the yt-dlp path
\* (initializer.rs 233-234), download_ffmpeg the archive path (266, 275)
Dest == IF ipc = "ytdlp_dl" THEN "ytdlp" ELSE "archive"
\* initializer.rs 217: the percent of a download, in whole percents
Percent(done, total) == (done * 100) \div total

\* tx.send on the channel of init_dependencies
SendInit(ss) ==
    /\ init_rx' = init_rx \o ss
    /\ init_sent' = init_sent \o ss

mainFrame == UNCHANGED <<uiVars, jobVars, histVars, pureVars>>
\* init_dependencies changed to send Failed and go on with the yt-dlp step
\* instead of returning
InitFails_without_return(msg) ==
    /\ SendInit(<<InitFailed(msg)>>)
    /\ ipc' = "ytdlp"

\* a step of init_dependencies that returns Err to its caller in
\* init_dependencies, which sends Failed and returns (initializer.rs 31-34, 40-43)
InitFails(msg) ==
    /\ SendInit(<<InitFailed(msg)>>)
    /\ ipc' = "done"

\* initializer.rs 20-26
create_app_dir(ok) ==
    /\ ipc = "start"
    /\ IF "dir" \in files
       THEN /\ ipc' = "ytdlp"
            /\ UNCHANGED <<files, init_rx, init_sent>>
       ELSE IF ok
            THEN /\ files' = files \cup {"dir"}
                 /\ ipc' = "ytdlp"
                 /\ UNCHANGED <<init_rx, init_sent>>
            ELSE /\ InitFails("folder_error")
                 /\ UNCHANGED files
    /\ UNCHANGED <<platform, files0, dlVars, zipVars, irelay, bootUi>>
    /\ mainFrame

\* initializer.rs 29-31: yt-dlp is downloaded when its path does not exist
init_ytdlp ==
    /\ ipc = "ytdlp"
    /\ IF "ytdlp" \in files
       THEN ipc' = "ffmpeg" /\ UNCHANGED fpc
       ELSE ipc' = "ytdlp_dl" /\ fpc' = "prep"
    /\ UNCHANGED <<platform, files0, files, fres, attempts, total_size, body_left, downloaded,
                   zipVars, init_rx, irelay, init_sent, bootUi>>
    /\ mainFrame

\* initializer.rs 157-164: the first status and the HTTP client
download_file_prep(okClient) ==
    /\ fpc = "prep"
    /\ SendInit(<<InitStarting("downloading_prep")>>)
    /\ IF okClient
       THEN fpc' = "attempt" /\ fres' = "none"
       ELSE fpc' = "ret" /\ fres' = "err"
    /\ attempts' = 0
    /\ total_size' = 0
    /\ body_left' = 0
    /\ downloaded' = 0
    /\ UNCHANGED <<platform, files0, files, ipc, zipVars, irelay, bootUi>>
    /\ mainFrame

\* initializer.rs 179-199: one attempt of the retried request.  A transient
\* error is retried until the backoff gives up, a permanent one is not.  The
\* response has a Content-Length (0 when unknown) and a body.
download_file_attempt(outcome, total, body) ==
    /\ fpc = "attempt"
    /\ CASE outcome = "ok" ->
              /\ SendInit(<<InitStarting("downloading_attempt")>>)
              /\ fpc' = "create"
              /\ total_size' = total
              /\ body_left' = body
              /\ UNCHANGED <<fres, attempts>>
         [] outcome = "transient" ->
              /\ SendInit(<<InitStarting("downloading_attempt"),
                            InitStarting("downloading_retry")>>)
              /\ IF attempts + 1 < MaxAttempts
                 THEN attempts' = attempts + 1 /\ UNCHANGED <<fpc, fres>>
                 ELSE fpc' = "ret" /\ fres' = "err" /\ UNCHANGED attempts
              /\ UNCHANGED <<total_size, body_left>>
         [] outcome = "permanent" ->
              /\ SendInit(<<InitStarting("downloading_attempt")>>)
              /\ fpc' = "ret"
              /\ fres' = "err"
              /\ UNCHANGED <<attempts, total_size, body_left>>
    /\ UNCHANGED <<platform, files0, files, ipc, downloaded, zipVars, irelay, bootUi>>
    /\ mainFrame

\* initializer.rs 200-201
download_file_create(ok) ==
    /\ fpc = "create"
    /\ IF ok
       THEN /\ files' = files \cup {Dest}
            /\ fpc' = "read"
            /\ UNCHANGED fres
       ELSE /\ fpc' = "ret"
            /\ fres' = "err"
            /\ UNCHANGED files
    /\ downloaded' = 0
    /\ UNCHANGED <<platform, files0, ipc, attempts, total_size, body_left, zipVars,
                   init_rx, irelay, init_sent, bootUi>>
    /\ mainFrame

\* initializer.rs 210: the bytes response.read can still return.  The client
\* frames a body that has a Content-Length: it hands out no more than that many
\* bytes, whatever the server goes on sending.
Readable ==
    IF total_size > 0 /\ total_size - downloaded < body_left
    THEN total_size - downloaded
    ELSE body_left

\* the read loop changed to compute the percent from the bytes of the chunk
\* just read instead of the running total
download_file_read_chunk_percent(n, ioOk) ==
    /\ fpc = "read"
    /\ n <= Readable
    /\ n = 0 <=> Readable = 0
    /\ (n = 0 /\ total_size > 0 /\ downloaded < total_size) => ~ioOk
    /\ IF ~ioOk
       THEN /\ fpc' = "ret"
            /\ fres' = "err"
            /\ UNCHANGED <<body_left, downloaded, init_rx, init_sent>>
       ELSE IF n = 0
            THEN /\ fpc' = "ret"
                 /\ fres' = "ok"
                 /\ UNCHANGED <<body_left, downloaded, init_rx, init_sent>>
            ELSE /\ downloaded' = downloaded + n
                 /\ body_left' = body_left - n
                 /\ IF total_size > 0
                    THEN SendInit(<<InitDownloading(Percent(n, total_size),
                                                    Dest)>>)
                    ELSE UNCHANGED <<init_rx, init_sent>>
                 /\ UNCHANGED <<fpc, fres>>
    /\ UNCHANGED <<platform, files0, files, ipc, attempts, total_size, zipVars, irelay, bootUi>>
    /\ mainFrame

\* initializer.rs 208-222: one iteration of the read loop.  read returns n bytes,
\* 0 at the end of the body; ioOk is FALSE when read or write_all fails.  When
\* the server ends a body short of its Content-Length, read returns an error,
\* not 0.
download_file_read(n, ioOk) ==
    /\ fpc = "read"
    /\ n <= Readable
    /\ n = 0 <=> Readable = 0
    /\ (n = 0 /\ total_size > 0 /\ downloaded < total_size) => ~ioOk
    /\ IF ~ioOk
       THEN /\ fpc' = "ret"
            /\ fres' = "err"
            /\ UNCHANGED <<body_left, downloaded, init_rx, init_sent>>
       ELSE IF n = 0
            THEN /\ fpc' = "ret"
                 /\ fres' = "ok"
                 /\ UNCHANGED <<body_left, downloaded, init_rx, init_sent>>
            ELSE /\ downloaded' = downloaded + n
                 /\ body_left' = body_left - n
                 /\ IF total_size > 0
                    THEN SendInit(<<InitDownloading(Percent(downloaded + n, total_size),
                                                    Dest)>>)
                    ELSE UNCHANGED <<init_rx, init_sent>>
                 /\ UNCHANGED <<fpc, fres>>
    /\ UNCHANGED <<platform, files0, files, ipc, attempts, total_size, zipVars, irelay, bootUi>>
    /\ mainFrame

\* initializer.rs 234-244 and 31-35: download_file has returned to
\* download_ytdlp.  Off windows the file is then made executable, with unwrap
\* on the results of metadata and set_permissions: a failure panics the thread.
download_ytdlp_finish(okMeta, okSet) ==
    /\ ipc = "ytdlp_dl"
    /\ fpc = "ret"
    /\ fpc' = "none"
    /\ IF fres = "err"
       THEN InitFails("ytdlp_download_fail")
       ELSE /\ ipc' = IF platform = "windows" \/ (okMeta /\ okSet)
                      THEN "ffmpeg" ELSE "panicked"
            /\ UNCHANGED <<init_rx, init_sent>>
    /\ UNCHANGED <<platform, files0, files, fres, attempts, total_size, body_left, downloaded,
                   zipVars, irelay, bootUi>>
    /\ mainFrame

\* initializer.rs 38-40 and 248-275: ffmpeg is downloaded when its path does
\* not exist; download_ffmpeg sends a status and calls download_file
init_ffmpeg ==
    /\ ipc = "ffmpeg"
    /\ IF "ffmpeg" \in files
       THEN /\ ipc' = "update"
            /\ UNCHANGED <<fpc, init_rx, init_sent>>
       ELSE /\ SendInit(<<InitStarting("ffmpeg_check")>>)
            /\ ipc' = "ffmpeg_dl"
            /\ fpc' = "prep"
    /\ UNCHANGED <<platform, files0, files, fres, attempts, total_size, body_left, downloaded,
                   zipVars, irelay, bootUi>>
    /\ mainFrame

\* initializer.rs 275-279, 301: download_file has returned to download_ffmpeg
download_ffmpeg_downloaded ==
    /\ ipc = "ffmpeg_dl"
    /\ fpc = "ret"
    /\ fpc' = "none"
    /\ IF fres = "err"
       THEN InitFails("ffmpeg_download_fail")
       ELSE /\ SendInit(<<InitExtracting("extracting")>>)
            /\ ipc' = IF ArchiveIsZip THEN "zip_open" ELSE "tar"
    /\ UNCHANGED <<platform, files0, files, fres, attempts, total_size, body_left, downloaded,
                   zipVars, irelay, bootUi>>
    /\ mainFrame

\* initializer.rs 280-281: File::open and ZipArchive::new
zip_open(ok, es) ==
    /\ ipc = "zip_open"
    /\ IF ok
       THEN /\ entries' = es
            /\ zi' = 1
            /\ ipc' = "zip_loop"
            /\ UNCHANGED <<init_rx, init_sent>>
       ELSE /\ InitFails("ffmpeg_download_fail")
            /\ UNCHANGED zipVars
    /\ UNCHANGED <<platform, files0, files, dlVars, irelay, bootUi>>
    /\ mainFrame

\* initializer.rs 283-300: one iteration of the loop over the archive
zip_entry(outcome) ==
    /\ ipc = "zip_loop"
    /\ zi <= Len(entries)
    /\ CASE outcome = "by_index_panic" ->
              /\ ipc' = "panicked"
              /\ UNCHANGED <<files, zi, init_rx, init_sent>>
         [] outcome = "create_err" /\ entries[zi] = "ffmpeg" ->
              /\ InitFails("ffmpeg_download_fail")
              /\ UNCHANGED <<files, zi>>
         [] outcome = "copy_err" /\ entries[zi] = "ffmpeg" ->
              /\ files' = files \cup {"ffmpeg"}
              /\ InitFails("ffmpeg_download_fail")
              /\ UNCHANGED zi
         [] outcome = "chmod_panic" /\ entries[zi] = "ffmpeg" /\ platform # "windows" ->
              /\ files' = files \cup {"ffmpeg"}
              /\ ipc' = "panicked"
              /\ UNCHANGED <<zi, init_rx, init_sent>>
         [] outcome = "ok" ->
              /\ files' = IF entries[zi] = "ffmpeg" THEN files \cup {"ffmpeg"} ELSE files
              /\ zi' = zi + 1
              /\ UNCHANGED <<ipc, init_rx, init_sent>>
         [] OTHER -> FALSE
    /\ UNCHANGED <<platform, files0, dlVars, entries, irelay, bootUi>>
    /\ mainFrame

\* initializer.rs 283: the loop over the archive ends
zip_done ==
    /\ ipc = "zip_loop"
    /\ zi > Len(entries)
    /\ ipc' = "cleanup"
    /\ UNCHANGED <<platform, files0, files, dlVars, zipVars, init_rx, irelay, init_sent, bootUi>>
    /\ mainFrame

\* initializer.rs 304-314: tar is run on the archive; hasBin tells whether the
\* directory it extracts holds bin/ffmpeg
run_tar(outcome, hasBin) ==
    /\ ipc = "tar"
    /\ IF outcome = "ok"
       THEN /\ files' = files \cup (IF hasBin THEN {"extracted_bin"} ELSE {})
            /\ ipc' = "tar_move"
            /\ UNCHANGED <<init_rx, init_sent>>
       ELSE /\ InitFails("ffmpeg_download_fail")
            /\ UNCHANGED files
    /\ UNCHANGED <<platform, files0, dlVars, zipVars, irelay, bootUi>>
    /\ mainFrame

\* initializer.rs 318-326: the extracted binary is moved to the ffmpeg path,
\* with unwrap on the results of read_dir, of its entries and of rename
move_ffmpeg(outcome) ==
    /\ ipc = "tar_move"
    /\ CASE outcome = "read_dir_panic" ->
              /\ ipc' = "panicked"
              /\ UNCHANGED files
         [] outcome = "rename_panic" /\ "extracted_bin" \in files ->
              /\ ipc' = "panicked"
              /\ UNCHANGED files
         [] outcome = "ok" ->
              /\ files' = IF "extracted_bin" \in files
                          THEN (files \ {"extracted_bin"}) \cup {"ffmpeg"}
                          ELSE files
              /\ ipc' = "cleanup"
         [] OTHER -> FALSE
    /\ UNCHANGED <<platform, files0, dlVars, zipVars, init_rx, irelay, init_sent, bootUi>>
    /\ mainFrame

\* initializer.rs 330-332: the result of remove_file is dropped
download_ffmpeg_cleanup(okRm) ==
    /\ ipc = "cleanup"
    /\ files' = IF okRm THEN files \ {"archive"} ELSE files
    /\ ipc' = "update"
    /\ UNCHANGED <<platform, files0, dlVars, zipVars, init_rx, irelay, init_sent, bootUi>>
    /\ mainFrame

\* initializer.rs 48
begin_update_check ==
    /\ ipc = "update"
    /\ SendInit(<<InitStarting("ytdlp_update_check")>>)
    /\ ipc' = "update_run"
    /\ UNCHANGED <<platform, files0, files, dlVars, zipVars, irelay, bootUi>>
    /\ mainFrame

\* initializer.rs 49-58 and 76-101: yt-dlp -U has run.  It asks the network for
\* the latest release and answers that the binary is up to date, or downloads
\* the release and answers that it has updated the binary, or fails; the answer
\* is sent on as a Starting status.
update_ytdlp(outcome) ==
    /\ ipc = "update_run"
    /\ outcome # "fail" => "ytdlp" \in files
    /\ SendInit(<<InitStarting(CASE outcome = "up_to_date" -> "ytdlp_up_to_date"
                                  [] outcome = "updated" -> "ytdlp_updated"
                                  [] OTHER -> "ytdlp_update_fail")>>)
    /\ ipc' = "check"
    /\ UNCHANGED <<platform, files0, files, dlVars, zipVars, irelay, bootUi>>
    /\ mainFrame

\* initializer.rs 61
begin_ffmpeg_check ==
    /\ ipc = "check"
    /\ SendInit(<<InitStarting("ffmpeg_check")>>)
    /\ ipc' = "check_run"
    /\ UNCHANGED <<platform, files0, files, dlVars, zipVars, irelay, bootUi>>
    /\ mainFrame

\* initializer.rs 62-71 and 103-131: ffmpeg -version has run.  v is "err" when
\* it cannot be run or exits with failure, else the first line of its output:
\* "short" (at most 30 bytes), "long" (byte 30 starts a character) or
\* "long_split" (byte 30 is inside a character, where the slice [..30] panics).
check_ffmpeg(v) ==
    /\ ipc = "check_run"
    /\ "ffmpeg" \notin files => v = "err"
    /\ IF v = "long_split"
       THEN /\ ipc' = "panicked"
            /\ UNCHANGED <<init_rx, init_sent>>
       ELSE /\ SendInit(<<InitStarting(IF v = "err" THEN "ffmpeg_check_fail"
                                                    ELSE "ffmpeg_ok")>>)
            /\ ipc' = "complete"
    /\ UNCHANGED <<platform, files0, files, dlVars, zipVars, irelay, bootUi>>
    /\ mainFrame

\* initializer.rs 73
send_completed ==
    /\ ipc = "complete"
    /\ SendInit(<<InitCompleted>>)
    /\ ipc' = "done"
    /\ UNCHANGED <<platform, files0, files, dlVars, zipVars, irelay, bootUi>>
    /\ mainFrame

\* main.rs 177-191: the init relay forwards a status to the UI
init_relay ==
    /\ irelay = "run"
    /\ init_rx # <<>>
    /\ init_rx' = Tail(init_rx)
    /\ rx_ui' = Append(rx_ui, InitStatusMsg(Head(init_rx)))
    /\ UNCHANGED <<state, playlist_info, download_queue, current_download_idx,
                   progress, progress_text, error_msg, stop_tx>>
    /\ UNCHANGED <<jobVars, histVars, pureVars>>
    /\ UNCHANGED <<platform, files0, files, ipc, dlVars, zipVars, irelay, init_sent, bootUi>>

\* main.rs 177: recv fails once init_dependencies has ended, by return or by
\* panic, and the channel is empty; the relay thread ends
init_relay_end ==
    /\ irelay = "run"
    /\ init_rx = <<>>
    /\ ipc \in {"done", "panicked"}
    /\ irelay' = "done"
    /\ UNCHANGED <<platform, files0, files, ipc, dlVars, zipVars, init_rx, init_sent, bootUi>>
    /\ mainFrame

\* main.rs 437-452: the user picks the download folder
pick_folder ==
    /\ state = "SetPath"
    /\ state' = "Input"
    /\ UNCHANGED <<playlist_info, download_queue, current_download_idx,
                   progress, progress_text, error_msg, stop_tx, rx_ui>>
    /\ UNCHANGED <<jobVars, histVars, bootVars, pureVars>>

\* ---- specifications ----------------------------------------------------------
\* MyApp after the bootstrap completed with a saved download directory
\* (main.rs 194-216, 340-343); limit is the number of jobs the behaviour may
\* start and h the history it records
\* the bootstrap has ended with Completed and the UI has left Initializing
BootDone ==
    /\ platform = "linux"
    /\ files = {"dir", "ytdlp", "ffmpeg"}
    /\ files0 = {"dir", "ytdlp", "ffmpeg"}
    /\ ipc = "done"
    /\ fpc = "none"
    /\ fres = "none"
    /\ attempts = 0
    /\ total_size = 0
    /\ body_left = 0
    /\ downloaded = 0
    /\ entries = <<>>
    /\ zi = 0
    /\ init_rx = <<>>
    /\ irelay = "done"
    /\ init_sent = <<>>
    /\ init_status = "ffmpeg_ok"
    /\ init_progress = 0
    /\ skip_set_path = TRUE

\* the application with its bootstrap done, waiting on the Input screen
IdleWith(limit, h) ==
    /\ state = "Input"
    /\ playlist_info = NoPlaylist
    /\ download_queue = <<>>
    /\ current_download_idx = 0
    /\ progress = 0
    /\ progress_text = ""
    /\ error_msg = ""
    /\ stop_tx = None
    /\ rx_ui = <<>>
    /\ nJobs = 0
    /\ jobEntry = [j \in Jobs |-> 0]
    /\ wpc = [j \in Jobs |-> "none"]
    /\ kpc = [j \in Jobs |-> "none"]
    /\ mutex = [j \in Jobs |-> "free"]
    /\ child = [j \in Jobs |-> "none"]
    /\ exitc = [j \in Jobs |-> "none"]
    /\ outPipe = [j \in Jobs |-> <<>>]
    /\ nLines = [j \in Jobs |-> 0]
    /\ errFill = [j \in Jobs |-> 0]
    /\ chan = [j \in Jobs |-> <<>>]
    /\ stopBuf = [j \in Jobs |-> 0]
    /\ analysis = "idle"
    /\ sent = [j \in Jobs |-> <<>>]
    /\ seen = [j \in Jobs |-> <<>>]
    /\ uiPhase = [j \in Jobs |-> "none"]
    /\ stopReq = FALSE
    /\ nAnalyses = 0
    /\ selfExit = [j \in Jobs |-> "none"]
    /\ printed = [j \in Jobs |-> <<>>]
    /\ midReadStop = [j \in Jobs |-> FALSE]
    /\ jobLimit = limit
    /\ hist = h
    /\ BootDone

InitWith(limit, h) ==
    /\ IdleWith(limit, h)
    /\ pin = <<>>
    /\ pout = <<>>


InitStep ==
    \/ \E ok \in BOOLEAN : create_app_dir(ok)
    \/ init_ytdlp
    \/ \E okMeta, okSet \in BOOLEAN : download_ytdlp_finish(okMeta, okSet)
    \/ init_ffmpeg
    \/ download_ffmpeg_downloaded
    \/ \E ok \in BOOLEAN, es \in EntrySeqs : zip_open(ok, es)
    \/ \E o \in {"ok", "by_index_panic", "create_err", "copy_err", "chmod_panic"} :
          zip_entry(o)
    \/ zip_done
    \/ \E o \in {"ok", "spawn_err", "exit_fail"}, hasBin \in BOOLEAN : run_tar(o, hasBin)
    \/ \E o \in {"ok", "read_dir_panic", "rename_panic"} : move_ffmpeg(o)
    \/ \E okRm \in BOOLEAN : download_ffmpeg_cleanup(okRm)
    \/ begin_update_check
    \/ \E o \in {"up_to_date", "updated", "fail"} : update_ytdlp(o)
    \/ begin_ffmpeg_check
    \/ \E v \in {"err", "short", "long", "long_split"} : check_ffmpeg(v)
    \/ send_completed

\* download_file, for responses whose Content-Length and delivered body are at
\* most maxBody bytes
DownloadFileSteps(maxBody) ==
    \/ \E okClient \in BOOLEAN : download_file_prep(okClient)
    \/ \E o \in {"ok", "transient", "permanent"}, total, body \in 0..maxBody :
          download_file_attempt(o, total, body)
    \/ \E ok \in BOOLEAN : download_file_create(ok)
    \/ \E n \in 0..maxBody, ioOk \in BOOLEAN : download_file_read(n, ioOk)

DownloadFileStep == DownloadFileSteps(MaxBody)

UserStep ==
    \/ start_analysis
    \/ \E i \in 1..NumEntries : toggle_selected(i)
    \/ start_download
    \/ stop_download
    \/ back_to_list

AnalysisStep == \E ok \in BOOLEAN, n \in 0..NumEntries : analysis_thread(ok, IF ok THEN n ELSE 0)

WorkerStep(j) ==
    \/ send_starting(j)
    \/ \E ok \in BOOLEAN : spawn_child(j, ok)
    \/ read_line(j)
    \/ read_eof(j)
    \/ \E waitOk \in BOOLEAN : wait_return(j, waitOk)

KillerStep(j) == killer_recv_err(j) \/ killer_kill(j)

ChildStep(j) ==
    \/ \E line \in (IF hist = "lines" THEN ReadLines ELSE JobLines) :
          child_write_stdout(j, line)
    \/ child_write_stderr(j)
    \/ child_block_stderr(j)
    \/ \E code \in {"success", "failure"} : child_exit(j, code)

Next ==
    \/ UserStep
    \/ update
    \/ AnalysisStep
    \/ \E j \in Jobs : WorkerStep(j) \/ KillerStep(j) \/ relay(j) \/ ChildStep(j)

\* the queue of jobs
Init == InitWith(MaxJobs, "phases")
Spec == Init /\ [][Next]_vars

\* the bootstrap, from the construction of MyApp (main.rs 140-217) until the UI
\* has left the Initializing state: any platform, any of the files present,
\* a download directory saved or not
BootAt(ipc0, fpc0, fileSets) ==
    /\ state = "Initializing"
    /\ playlist_info = NoPlaylist
    /\ download_queue = <<>>
    /\ current_download_idx = 0
    /\ progress = 0
    /\ progress_text = ""
    /\ error_msg = ""
    /\ stop_tx = None
    /\ rx_ui = <<>>
    /\ nJobs = 0
    /\ jobEntry = [j \in Jobs |-> 0]
    /\ wpc = [j \in Jobs |-> "none"]
    /\ kpc = [j \in Jobs |-> "none"]
    /\ mutex = [j \in Jobs |-> "free"]
    /\ child = [j \in Jobs |-> "none"]
    /\ exitc = [j \in Jobs |-> "none"]
    /\ outPipe = [j \in Jobs |-> <<>>]
    /\ nLines = [j \in Jobs |-> 0]
    /\ errFill = [j \in Jobs |-> 0]
    /\ chan = [j \in Jobs |-> <<>>]
    /\ stopBuf = [j \in Jobs |-> 0]
    /\ analysis = "idle"
    /\ sent = [j \in Jobs |-> <<>>]
    /\ seen = [j \in Jobs |-> <<>>]
    /\ uiPhase = [j \in Jobs |-> "none"]
    /\ stopReq = FALSE
    /\ nAnalyses = 0
    /\ selfExit = [j \in Jobs |-> "none"]
    /\ printed = [j \in Jobs |-> <<>>]
    /\ midReadStop = [j \in Jobs |-> FALSE]
    /\ jobLimit = 0
    /\ hist = "full"
    /\ platform \in Platforms
    /\ files \in fileSets
    /\ files0 = files
    /\ ipc = ipc0
    /\ fpc = fpc0
    /\ fres = "none"
    /\ attempts = 0
    /\ total_size = 0
    /\ body_left = 0
    /\ downloaded = 0
    /\ entries = <<>>
    /\ zi = 0
    /\ init_rx = <<>>
    /\ irelay = "run"
    /\ init_sent = <<>>
    /\ init_status = "preparing"
    /\ init_progress = 0
    /\ skip_set_path \in BOOLEAN
    /\ pin = <<>>
    /\ pout = <<>>
BootInit ==
    BootAt("start", "none",
           {{}, {"dir"}, {"dir", "ytdlp"}, {"dir", "ffmpeg"}, {"dir", "ytdlp", "ffmpeg"}})
BootNext ==
    \/ InitStep
    \/ DownloadFileStep
    \/ init_relay
    \/ init_relay_end
    \/ update
    \/ pick_folder
BootSpec == BootInit /\ [][BootNext]_vars

\* one call of download_file, made by download_ytdlp (initializer.rs 233-234)
\* when the data directory exists and yt-dlp is missing, with responses of up
\* to MaxDlBody bytes and the relay thread of the UI running
DlInit == BootAt("ytdlp_dl", "prep", {{"dir"}, {"dir", "ffmpeg"}})
DlNext ==
    \/ DownloadFileSteps(MaxDlBody)
    \/ init_relay
DlSpec == DlInit /\ [][DlNext]_vars

\* sanitize_filename alone: pin is the name it is given, pout the results of
\* applying it to the name and then to its own result
SanChars == ReservedChars \cup {"a", " ", "_", ".", "#"}
SanInputs == UNION {[1..n -> SanChars] : n \in 0..MaxStrLen} \cup {TitleOf(1)}
call_sanitize_filename ==
    /\ Len(pout) < 2
    /\ pout' = Append(pout, sanitize_filename(IF pout = <<>> THEN pin ELSE pout[Len(pout)]))
    /\ UNCHANGED <<pin, uiVars, jobVars, histVars, bootVars>>
SanInit ==
    /\ IdleWith(0, "full")
    /\ pin \in SanInputs
    /\ pout = <<>>
SanSpec == SanInit /\ [][call_sanitize_filename]_vars

\* the body of the read loop alone (downloader.rs 174-190): pin is the line
\* read, pout holds the statuses sent for it once the body has run.  The lines
\* are up to MaxToks tokens joined by single spaces.
ParseToks ==
    { <<"[download]">>, <<"[Merger]">>, <<"x">>, <<"%">>, <<"/", "s">>,
      <<"5", "0", "%">>, <<"1", "0", "0", "%">>, <<"0", "%">>, <<"1", "5", "0", "%">>,
      <<"-", "5", "%">>, <<"5", "0", ".", "0", "%">>, <<"x", "%">>, <<"5", "%", "x">>,
      <<"1", "M", "/", "s">> }
RECURSIVE Join(_)
Join(toks) ==
    IF toks = <<>> THEN <<>>
    ELSE IF Len(toks) = 1 THEN toks[1]
         ELSE toks[1] \o <<" ">> \o Join(Tail(toks))
ParseLines == {Join(ts) : ts \in UNION {[1..n -> ParseToks] : n \in 0..MaxToks}}
read_loop_body ==
    /\ pout = <<>>
    /\ pout' = <<LineStatuses(pin)>>
    /\ UNCHANGED <<pin, uiVars, jobVars, histVars, bootVars>>
ParseInit ==
    /\ IdleWith(0, "full")
    /\ pin \in ParseLines
    /\ pout = <<>>
ParseSpec == ParseInit /\ [][read_loop_body]_vars

\* one job whose child prints any of ReadLines
ReadInit == InitWith(1, "lines")
ReadSpec == ReadInit /\ [][Next]_vars

\* the argument building alone: pin is the DownloadConfig and the output
\* template, pout the argument list built for them
ArgConfigs ==
    [format : DownloadFormats, audio_quality : {"320K", "128K", "0"},
     url : {"https://youtu.be/a", "https://youtu.be/b", "https://example.com/watch?v=c"}]
OutputTemplates == {"dir/title.%(ext)s", "dir/Test  Song 1.%(ext)s"}
build_args ==
    /\ pout = <<>>
    /\ pout' = <<BuildArgs(pin[1], pin[2])>>
    /\ UNCHANGED <<pin, uiVars, jobVars, histVars, bootVars>>
ArgsInit ==
    /\ IdleWith(0, "full")
    /\ pin \in ArgConfigs \X OutputTemplates
    /\ pout = <<>>
ArgsSpec == ArgsInit /\ [][build_args]_vars

\* the queue of jobs with the terminal statuses the UI has handled on record
QueueInit == InitWith(MaxJobs, "queue")
QueueSpec == QueueInit /\ [][Next]_vars

\* the paths alone, after a bootstrap that ended with Completed: pin is the
\* platform, whether ~/.local/bin/yt-dlp exists, the PATH of the application
\* and whether /usr/bin holds a yt-dlp of the system; pout the paths computed
PathDirs == {"/usr/bin", "/opt/tools", AppDir}
PathInputs ==
    [os : Platforms, pipx_exists : BOOLEAN, system_ytdlp : BOOLEAN,
     current_path : UNION {[1..n -> PathDirs] : n \in 0..MaxPathDirs}]
resolve_tools ==
    /\ pout = <<>>
    /\ pout' = <<[installed |-> initializer_get_ytdlp_path(pin.os),
                  executed |-> playlist_get_ytdlp_path(pin.os, pin.pipx_exists),
                  ffmpeg |-> get_ffmpeg_path(pin.os),
                  child_path |-> new_path(pin.os, pin.current_path)]>>
    /\ UNCHANGED <<pin, uiVars, jobVars, histVars, bootVars>>
PathInit ==
    /\ IdleWith(0, "full")
    /\ pin \in PathInputs
    /\ pout = <<>>
PathSpec == PathInit /\ [][resolve_tools]_vars

\* one job whose child may close its stdout before it exits
WaitInit == InitWith(1, "full")
WaitNext ==
    \/ Next
    \/ \E j \in Jobs : child_close_stdout(j)
WaitSpec == WaitInit /\ [][WaitNext]_vars

\* one job, with the statuses sent and seen recorded
JobInit == InitWith(1, "full")
JobSpec == JobInit /\ [][Next]_vars

\* one job under the scheduling the program relies on: every thread that can
\* take a step eventually takes one, the child process keeps running while it
\* can, and update() is called for every frame.  The user's clicks are not fair.
Fairness ==
    /\ WF_vars(update)
    /\ WF_vars(AnalysisStep)
    /\ \A j \in Jobs :
         /\ WF_vars(WorkerStep(j))
         /\ WF_vars(KillerStep(j))
         /\ WF_vars(relay(j))
         /\ WF_vars(ChildStep(j))
FairSpec == JobInit /\ [][Next]_vars /\ Fairness

\* ---- claims -------------------------------------------------------------------
Last(q) == q[Len(q)]
NTerminal(q) == Cardinality({i \in 1..Len(q) : IsTerminal(q[i])})
NInitTerminal(q) == Cardinality({i \in 1..Len(q) : IsInitTerminal(q[i])})
\* a worker thread that has started and not returned; a child process that has
\* been spawned and not been reaped by wait
WorkerAlive(j) == wpc[j] \notin {"none", "done"}
ChildAlive(j) == child[j] \in {"running", "blocked", "closed_out", "exited"}
JobsOfUi(j) == SelectSeq(rx_ui, LAMBDA m : m.tag = "DownloadProgress" /\ m.job = j)
StatusesOf(ms) == [i \in 1..Len(ms) |-> ms[i].st]

RECURSIVE FlatStatuses(_)
\* the statuses the lines of a sequence produce, line after line
FlatStatuses(lines) ==
    IF lines = <<>> THEN <<>> ELSE LineStatuses(Head(lines)) \o FlatStatuses(Tail(lines))

\* the step is update() handling a status of kind k
UpdateHandles(k) ==
    /\ rx_ui # <<>>
    /\ rx_ui' = Tail(rx_ui)
    /\ Head(rx_ui).tag = "DownloadProgress"
    /\ Head(rx_ui).st.kind = k

\* C1: in every run of download_video at most one terminal status is sent on the
\* job's channel, and it is the last status sent.
C1_AtMostOneTerminalAndLast ==
    \A j \in Jobs :
        /\ NTerminal(sent[j]) <= 1
        /\ \A i \in 1..Len(sent[j]) : IsTerminal(sent[j][i]) => i = Len(sent[j])
        /\ wpc[j] = "done" => NTerminal(sent[j]) = 1

C1_Witness ==
    \E j \in Jobs :
        /\ wpc[j] = "done"
        /\ midReadStop[j]
        /\ selfExit[j] = "none"
        /\ Len(sent[j]) >= 3
        /\ Last(sent[j]).kind = "Failed"

\* C2: every job started by download_next eventually delivers a terminal status
\* to the UI, whatever the child does.
C2_EveryJobReachesTerminalAtUi ==
    \A j \in Jobs : (wpc[j] # "none") ~> (uiPhase[j] = "terminal")

\* C3: when init_dependencies has ended, it has sent exactly one terminal status
\* (Completed or Failed), and that status is the last one it sent.
C3_InitSendsOneTerminalLast ==
    ipc \in {"done", "panicked"} =>
        /\ NInitTerminal(init_sent) = 1
        /\ IsInitTerminal(Last(init_sent))

\* C4: the UI handles no status of job k+1 before it has handled the terminal
\* status of job k, and no two workers or child processes are alive at once.
C4_JobsDoNotOverlap ==
    \A j, k \in Jobs :
        j < k =>
            /\ ~(WorkerAlive(j) /\ WorkerAlive(k))
            /\ ~(ChildAlive(j) /\ ChildAlive(k))
            /\ wpc[k] # "none" => wpc[j] = "done"
            /\ uiPhase[k] # "none" => uiPhase[j] = "terminal"
            /\ JobsOfUi(k) # <<>> => uiPhase[j] = "terminal"

C4_Witness ==
    /\ nJobs = 2
    /\ uiPhase[1] = "terminal"
    /\ uiPhase[2] = "running"
    /\ ChildAlive(2)

\* C5: within one job the statuses the UI has handled, followed by those waiting
\* in the UI channel and in the relay's channel, are the statuses download_video
\* sent, in order; once the UI handled the terminal status it has handled them
\* all; and the statuses sent between Starting and the terminal status are those
\* of the stdout lines read so far, in the order the child printed them.
C5_OrderedLosslessRelay ==
    \A j \in Jobs :
        /\ seen[j] \o StatusesOf(JobsOfUi(j)) \o chan[j] = sent[j]
        /\ uiPhase[j] = "terminal" => seen[j] = sent[j]
        /\ wpc[j] \in {"read", "waiting"} =>
              sent[j] = <<Starting("download_starting")>> \o
                        FlatStatuses(SubSeq(printed[j], 1, Len(printed[j]) - Len(outPipe[j])))

C5_Witness ==
    \E j \in Jobs :
        /\ uiPhase[j] = "terminal"
        /\ Len(printed[j]) = 2
        /\ printed[j][1] # printed[j][2]
        /\ Len(seen[j]) = 4

\* C6: when stop_download was invoked during a job and the job then ends with
\* Failed, update shows the stopped text and sets no error message.
C6_FailedAfterStopIsStopped ==
    [][ (UpdateHandles("Failed") /\ stopReq /\ Head(rx_ui).job = stop_tx)
          => (progress_text' = "download_stopped" /\ error_msg' = error_msg) ]_vars

\* C7 as claimed: a job that got the stop signal while its reader was blocked
\* ends with Failed.
C7_StopMidReadEndsFailed ==
    \A j \in Jobs : (midReadStop[j] /\ wpc[j] = "done") => Last(sent[j]).kind = "Failed"

\* C7: a job that got the stop signal while its reader was blocked in a read
\* reaches the end of download_video with exactly one terminal status sent,
\* which is Failed unless the child had exited by itself with success before
\* the killer thread killed it.
C7_StopMidReadEndsJob ==
    \A j \in Jobs :
        midReadStop[j] ~>
            (/\ wpc[j] = "done"
             /\ NTerminal(sent[j]) = 1
             /\ (Last(sent[j]).kind = "Failed" \/ selfExit[j] = "success"))

C7_Witness ==
    \E j \in Jobs :
        /\ midReadStop[j]
        /\ wpc[j] = "done"
        /\ kpc[j] = "done"
        /\ selfExit[j] = "none"
        /\ Last(sent[j]) = Failed("download_failed_or_stopped")

\* C8: a second stop request in a job, or one sent after the child has exited,
\* changes nothing of the supervisor, and a child that exited by itself gets
\* the terminal status of its own exit code whatever stop requests follow.
C8_RepeatedOrLateStopIsNoOp ==
    /\ [][ (stop_download /\ stop_tx # None
                /\ (stopReq \/ child[stop_tx] \notin {"running", "blocked"}))
            => UNCHANGED <<wpc, kpc, mutex, child, exitc, outPipe, chan, sent>> ]_vars
    /\ [](\A j \in Jobs :
            (wpc[j] = "done" /\ selfExit[j] # "none" /\ Last(sent[j]).text # "wait_error")
                => (Last(sent[j]).kind = "Completed" <=> selfExit[j] = "success"))
    /\ [](\A j \in Jobs :
            (wpc[j] = "done" /\ kpc[j] # "none" /\ selfExit[j] = "none"
                /\ Last(sent[j]).text # "wait_error")
                => Last(sent[j]).kind = "Failed")

C8_Witness ==
    \E j \in Jobs :
        /\ stopBuf[j] = 2
        /\ child[j] = "exited"
        /\ selfExit[j] = "success"

\* C9: stop_download leaves the state Downloading and stop_tx set; they change
\* only when update handles a terminal status of the current job.
C9_StopChangesNoState ==
    [][ /\ stop_download => (state' = state /\ stop_tx' = stop_tx)
        /\ (state = "Downloading" /\ (state' # state \/ stop_tx' # stop_tx))
              => (\E k \in {"Completed", "Failed", "Stopped"} : UpdateHandles(k))
                 /\ Head(rx_ui).job = stop_tx ]_vars

C9_Witness ==
    /\ state = "Downloading"
    /\ stopReq
    /\ stop_tx # None
    /\ wpc[stop_tx] = "done"
    /\ rx_ui # <<>>

\* C10 as claimed: Starting is sent only after the child was spawned, and when
\* the spawn fails the only status sent is Failed.
C10_StartingOnlyAfterSpawn ==
    \A j \in Jobs :
        /\ sent[j] # <<>> => (child[j] # "none" \/ kpc[j] # "none")
        /\ (sent[j] # <<>> /\ Last(sent[j]).text = "spawn_error")
              => sent[j] = <<Failed("spawn_error")>>

\* C10: Starting is sent before the spawn is attempted; when the spawn fails the
\* statuses sent are Starting and then Failed with the OS error, and no killer
\* thread, read loop or wait is run.
C10_SpawnFailureSendsStartingThenFailed ==
    \A j \in Jobs :
        /\ wpc[j] = "spawn" => sent[j] = <<Starting("download_starting")>>
        /\ (sent[j] # <<>> /\ Last(sent[j]).text = "spawn_error")
              => /\ sent[j] = <<Starting("download_starting"), Failed("spawn_error")>>
                 /\ wpc[j] = "done"
                 /\ kpc[j] = "none"
                 /\ child[j] = "none"
                 /\ mutex[j] = "free"
                 /\ printed[j] = <<>>

C10_Witness ==
    \E j \in Jobs : sent[j] # <<>> /\ Last(sent[j]).text = "spawn_error"

\* C11: when wait returns, download_video sends one more status and it is the
\* terminal one: Completed with the title of the job's queue entry, which is not
\* the sanitized title, exactly when the child exited with success and wait did
\* not fail, and Failed otherwise; no status it sends is Stopped.
C11_TerminalFromWaitResult ==
    /\ [][ \A j \in Jobs :
             (wpc[j] = "waiting" /\ wpc'[j] = "done") =>
                LET t == Last(sent'[j]) IN
                  /\ sent'[j] = Append(sent[j], t)
                  /\ t.kind \in {"Completed", "Failed"}
                  /\ t.kind = "Completed" =>
                        (exitc[j] = "success" /\ t.text = JobTitle(j))
                  /\ (exitc[j] = "success" /\ t.text # "wait_error") =>
                        t.kind = "Completed"
                  /\ exitc[j] = "killed" => t.kind = "Failed" ]_vars
    /\ [](\A j \in Jobs : \A i \in 1..Len(sent[j]) : sent[j][i].kind # "Stopped")

C11_Witness ==
    \E j \in Jobs :
        /\ wpc[j] = "done"
        /\ selfExit[j] = "success"
        /\ Last(sent[j]) = Completed(TitleOf(1))
        /\ sanitize_filename(TitleOf(1)) # TitleOf(1)

\* the kinds and the texts of the statuses init_dependencies has sent
InitKindsSent == {init_sent[i].kind : i \in 1..Len(init_sent)}
InitTextsSent == {init_sent[i].text : i \in 1..Len(init_sent)}
InitEnded == ipc \in {"done", "panicked"}

\* C12: when both tool paths exist as init_dependencies starts, it downloads
\* nothing (download_file is never called, no file changes, yt-dlp -U does not
\* download a release), sends no Downloading and no Extracting status, and has
\* sent Completed last when it has ended.
C12_PresentToolsSkipDownloads ==
    {"ytdlp", "ffmpeg"} \subseteq files0 =>
        /\ fpc = "none"
        /\ files = files0
        /\ InitKindsSent \cap {"Downloading", "Extracting"} = {}
        /\ InitTextsSent \cap {"downloading_prep", "ytdlp_updated"} = {}
        /\ InitEnded => (init_sent # <<>> /\ Last(init_sent) = InitCompleted)

\* C13: when init_dependencies has sent Completed, the yt-dlp binary and the
\* ffmpeg binary exist at their paths.
C13_CompletedImpliesToolsPresent ==
    "Completed" \in InitKindsSent => {"ytdlp", "ffmpeg"} \subseteq files

\* C14: once init_dependencies has sent Failed it has returned: Failed is the
\* last status, no later step changes a file or sends a status; after a failure
\* to create the directory nothing else was sent and no download was started,
\* and after a failure of the yt-dlp download no ffmpeg download, no self-check
\* and no Completed follow.
C14_FailedHaltsBootstrap ==
    /\ [](("Failed" \in InitKindsSent) =>
            /\ ipc = "done"
            /\ Last(init_sent).kind = "Failed"
            /\ NInitTerminal(init_sent) = 1)
    /\ [][ipc = "done" => UNCHANGED <<ipc, fpc, files, init_sent>>]_vars
    /\ []("folder_error" \in InitTextsSent =>
            /\ init_sent = <<InitFailed("folder_error")>>
            /\ files = files0
            /\ fpc = "none")
    /\ []("ytdlp_download_fail" \in InitTextsSent =>
            /\ InitTextsSent \cap {"ffmpeg_check", "ytdlp_update_check", "extracting"} = {}
            /\ InitKindsSent \cap {"Extracting", "Completed"} = {}
            /\ "archive" \notin files
            /\ "ffmpeg" \in files => "ffmpeg" \in files0)

C14_Witness ==
    /\ ipc = "done"
    /\ Last(init_sent) = InitFailed("ytdlp_download_fail")
    /\ "ytdlp" \in files
    /\ "ffmpeg" \notin files
    /\ irelay = "done"

\* C15: once the self-checks have begun, init_dependencies sends no Failed, and
\* when it has ended it has sent Completed last, whatever yt-dlp -U and
\* ffmpeg -version did.
C15_SelfCheckFailuresAreNotFatal ==
    "ytdlp_update_check" \in InitTextsSent =>
        /\ "Failed" \notin InitKindsSent
        /\ InitEnded => Last(init_sent) = InitCompleted


\* the percents of the Downloading statuses sent so far, in the order sent
RECURSIVE DownloadingPcts(_)
DownloadingPcts(ss) ==
    IF ss = <<>> THEN <<>>
    ELSE IF ss[1].kind = "Downloading"
         THEN <<ss[1].pct>> \o DownloadingPcts(Tail(ss))
         ELSE DownloadingPcts(Tail(ss))

\* C16: in download_file with a known Content-Length (total_size > 0), the
\* percents of the successive Downloading statuses never decrease, and when
\* download_file returns Ok the last percent sent is 100, for every chunking
\* and every number of bytes the server delivers.
C16_PercentMonotoneEndsAt100 ==
    LET ps == DownloadingPcts(init_sent) IN
        /\ \A i, k \in 1..Len(ps) : i <= k => ps[i] <= ps[k]
        /\ (fpc = "ret" /\ fres = "ok" /\ total_size > 0) =>
              /\ ps # <<>>
              /\ ps[Len(ps)] = 100
              /\ downloaded = total_size
C16_Witness ==
    /\ fpc = "ret"
    /\ fres = "ok"
    /\ total_size = 3
    /\ body_left > 0
    /\ DownloadingPcts(init_sent) = <<33, 66, 100>>

\* the number of positions of s holding the character c
Count(s, c) == Cardinality({i \in 1..Len(s) : s[i] = c})

\* C17: sanitize_filename is idempotent, and its result holds none of the
\* characters / \ : * ? " < > |.
C17_SanitizeIdempotentNoReserved ==
    /\ \A k \in 1..Len(pout) : \A i \in 1..Len(pout[k]) : pout[k][i] \notin ReservedChars
    /\ Len(pout) = 2 => pout[2] = pout[1]
C17_Witness ==
    /\ Len(pout) = 2
    /\ pin = <<" ", ":", "a">>
    /\ pout[1] = <<"a">>
    /\ pout[2] = <<"a">>

\* C18: sanitize_filename replaces a reserved character such as ':' by an
\* underscore instead of deleting it: the result has one underscore for every
\* colon and every underscore of the name, and the name "Test / Song: 1" gives
\* "Test Song_ 1" (the slash taken out, the colon replaced).
C18_ReservedMappedToUnderscore ==
    Len(pout) >= 1 =>
        /\ Count(pout[1], "_") = Count(pin, "_") + Count(pin, ":")
        /\ pin = TitleOf(1) =>
              pout[1] \in {Str(<<"T", "e", "s", "t", " ", "S", "o", "n", "g", "_", " ", "1">>),
                            Str(<<"T", "e", "s", "t", " ", " ", "S", "o", "n", "g", "_", " ", "1">>)}

\* the decimal text of a natural number, and the token "p%"
RECURSIVE DecimalText(_)
DecimalText(n) ==
    IF n < 10 THEN <<DigitChars[n + 1]>>
    ELSE DecimalText(n \div 10) \o <<DigitChars[(n % 10) + 1]>>
PercentToken(p) == DecimalText(p) \o <<"%">>
\* the positions of the tokens of a line that end in '%', resp. in "/s"
PctPositions(line) ==
    {i \in 1..Len(SplitWhitespace(line)) :
        LET t == SplitWhitespace(line)[i] IN t[Len(t)] = "%"}
SpeedPositions(line) ==
    {i \in 1..Len(SplitWhitespace(line)) :
        LET t == SplitWhitespace(line)[i] IN Len(t) >= 2 /\ t[Len(t) - 1] = "/" /\ t[Len(t)] = "s"}
Least(S) == CHOOSE i \in S : \A k \in S : i <= k
\* the label the claim names: the first token ending in "/s", else the empty string
SpeedLabel(line) ==
    IF SpeedPositions(line) = {} THEN <<>>
    ELSE SplitWhitespace(line)[Least(SpeedPositions(line))]
\* the statuses sent for the line hold Progress(p, label)
SendsProgress(p, label) ==
    \E k \in 1..Len(pout[1]) :
        /\ pout[1][k].kind = "Progress"
        /\ pout[1][k].pct = p
        /\ pout[1][k].text = label

\* C19 as claimed: for a line that contains "[download]" and has a token "p%"
\* with 0 <= p <= 100, the read loop sends Progress with percent p and the
\* first token ending in "/s" (else the empty string) as its label.
C19_AnyPercentTokenIsReported ==
    pout # <<>> =>
        \A p \in 0..100 :
            (/\ Contains(pin, <<"[download]">>)
             /\ \E i \in 1..Len(SplitWhitespace(pin)) : SplitWhitespace(pin)[i] = PercentToken(p))
            => SendsProgress(p, SpeedLabel(pin))

\* C19: for a line that contains "[download]" and whose first token ending in
\* '%' is "p%" with 0 <= p <= 100, the read loop sends Progress with percent p
\* and the first token ending in "/s" (else the empty string) as its label.
C19_FirstPercentTokenIsReported ==
    pout # <<>> =>
        \A p \in 0..100 :
            (/\ Contains(pin, <<"[download]">>)
             /\ PctPositions(pin) # {}
             /\ SplitWhitespace(pin)[Least(PctPositions(pin))] = PercentToken(p))
            => SendsProgress(p, SpeedLabel(pin))
C19_Witness ==
    /\ pin = Join(<<<<"[download]">>, <<"5", "0", "%">>, <<"1", "0", "0", "%">>>>)
    /\ pout = <<<<Progress(50, Str(<<>>))>>>>

\* a line with none of the tags of the read loop
NoTag(line) ==
    /\ ~Contains(line, <<"[download]">>)
    /\ ~Contains(line, <<"[ExtractAudio]">>)
    /\ ~Contains(line, <<"[Merger]">>)
\* a line with the progress tag whose first token ending in '%' is no number
BadPercent(line) ==
    /\ Contains(line, <<"[download]">>)
    /\ PctPositions(line) # {}
    /\ ~ParseF64(TrimEndMatches(SplitWhitespace(line)[Least(PctPositions(line))], "%")).ok
\* the read loop of job j takes a line for which skip holds: it sends nothing,
\* goes on reading, and leaves the exit status alone
ReadsSilently(j, skip(_)) ==
    (/\ wpc[j] = "read"
     /\ outPipe[j] # <<>>
     /\ outPipe'[j] = Tail(outPipe[j])
     /\ skip(Head(outPipe[j])))
    => /\ sent'[j] = sent[j]
       /\ chan'[j] = chan[j]
       /\ wpc'[j] = "read"
       /\ exitc'[j] = exitc[j]
\* a job that ran to its end has a terminal status that follows from the exit
\* status of the child, whatever lines the child printed
TerminalFromExit(j) ==
    (wpc[j] = "done" /\ selfExit[j] = "success" /\ Last(sent[j]).text # "wait_error")
        => Last(sent[j]).kind = "Completed"

\* C20 as claimed: a line that has no tag, or has the progress tag and a first
\* token ending in '%' that is no number, produces no status, and reading
\* goes on.
C20_UnparsedLineSendsNothing ==
    [][\A j \in Jobs : ReadsSilently(j, LAMBDA l : NoTag(l) \/ BadPercent(l))]_vars

\* C20: a line that has no tag, or has the progress tag, neither conversion
\* tag and a first token ending in '%' that is no number, produces no status
\* and leaves the terminal status as the exit status decides it; reading goes on.
C20_IgnoredLineSendsNothing ==
    /\ [][\A j \in Jobs :
            ReadsSilently(j, LAMBDA l :
                \/ NoTag(l)
                \/ /\ BadPercent(l)
                   /\ ~Contains(l, <<"[ExtractAudio]">>)
                   /\ ~Contains(l, <<"[Merger]">>))]_vars
    /\ [](\A j \in Jobs : TerminalFromExit(j))
C20_Witness ==
    \E j \in Jobs :
        /\ wpc[j] = "done"
        /\ printed[j] = <<LineBadPercent, LineOther>>
        /\ Len(sent[j]) = 2
        /\ Last(sent[j]).kind = "Completed"

\* C21: once download_video of a job has returned and its last status has
\* been forwarded, the receive of the relay thread of the job returns Err, so
\* that the thread leaves its loop: no relay thread stays blocked on its
\* receive after its job has finished.
C21_RelayEndsAfterJob ==
    \A j \in Jobs : (wpc[j] = "done" /\ chan[j] = <<>>) => RelayRecv(j) = "err"

\* C22: the supervisor drains every pipe it captures, stdout and stderr alike,
\* so the child is never held in a write to a full pipe that nobody reads.
C22_ChildNeverHeldByFullPipe ==
    \A j \in Jobs : child[j] # "blocked"

\* a stop signal is waiting for the killer thread of a job whose child runs
StopPending(j) ==
    kpc[j] = "recv" /\ stopBuf[j] > 0 /\ child[j] \in {"running", "blocked", "closed_out"}
\* kill and wait exclude each other: wait runs with the mutex held by the
\* worker, and a step that kills the child starts with the mutex free
KillAndWaitExclusive ==
    /\ [](\A j \in Jobs : wpc[j] = "waiting" <=> mutex[j] = "worker")
    /\ [][\A j \in Jobs : (exitc'[j] = "killed" /\ exitc[j] # "killed") => mutex[j] = "free"]_vars
\* the mutex is free while the reader is blocked in a read, so that a stop
\* signal that is waiting then can be served
KillDuringRead ==
    [](\A j \in Jobs :
          ReaderBlocked(j) => (mutex[j] = "free" /\ (StopPending(j) => ENABLED killer_kill(j))))

\* C23: kill and wait on the child handle exclude each other, the mutex is not
\* held while the reader blocks in a read, so that the killer can kill then,
\* and a stop signal sent while the worker is in wait can still end the child.
C23_MutexGuardsChildHandle ==
    /\ KillAndWaitExclusive
    /\ KillDuringRead
    /\ [](\A j \in Jobs : (wpc[j] = "waiting" /\ StopPending(j)) => ENABLED killer_kill(j))

\* C24: an error returned while a stdout line is read ends the read loop: the
\* worker goes on to the wait for the exit of the child.
C24_ReadErrorEndsLoop ==
    [][\A j \in Jobs :
          (/\ wpc[j] = "read"
           /\ outPipe[j] # <<>>
           /\ outPipe'[j] = Tail(outPipe[j])
           /\ ~LinesItemOk(Head(outPipe[j])))
          => wpc'[j] = "waiting"]_vars

\* download_ffmpeg is extracting the archive it has downloaded
Extracting == ipc \in {"zip_open", "zip_loop", "tar", "tar_move"}
\* C25: on every path that follows a successful download of the archive,
\* download_ffmpeg removes the archive: it leaves the extraction, failed or
\* not, through the step that removes the archive file.
C25_ArchiveRemovedOnEveryPath ==
    [][(Extracting /\ ~Extracting') => ipc' = "cleanup"]_vars

\* C26: when update handles Failed, the UI goes to Ready and clears stop_tx
\* without starting a job; while the UI is in Ready no job is alive and no
\* status is on its way, so that nothing starts a job but the download button,
\* which rebuilds the queue from the selection and starts its first entry.
C26_FailedStartsNoJob ==
    /\ [][UpdateHandles("Failed") =>
            /\ state' = "Ready"
            /\ stop_tx' = None
            /\ nJobs' = nJobs
            /\ wpc' = wpc
            /\ UNCHANGED <<download_queue, current_download_idx>>]_vars
    /\ [](state = "Ready" =>
            \A j \in Jobs : wpc[j] \in {"none", "done"} /\ chan[j] = <<>> /\ JobsOfUi(j) = <<>>)
    /\ [][(state = "Ready" /\ nJobs' # nJobs) =>
            /\ download_queue' = SelectedFrom(playlist_info.selected, 1)
            /\ current_download_idx' = 0
            /\ state' = "Downloading"
            /\ nJobs' = nJobs + 1
            /\ stop_tx' = nJobs + 1]_vars
C26_Witness ==
    /\ state = "Downloading"
    /\ error_msg = "download_paused"
    /\ nJobs = 2
    /\ wpc[2] # "none"
    /\ current_download_idx = 0
    /\ uiPhase[1] = "terminal"

\* C27: every Progress status the read loop sends carries a percent from 0 to
\* 100, whatever the line is.
C27_ProgressPercentInRange ==
    \A k \in 1..Len(pout) : \A i \in 1..Len(pout[k]) :
        pout[k][i].kind = "Progress" => (0 <= pout[k][i].pct /\ pout[k][i].pct <= 100)

\* C28: one stdout line produces at most one status, and a line that contains
\* "[ExtractAudio]" or "[Merger]" produces one Converting and nothing else,
\* also when it carries the progress tag and a percent.
C28_OneStatusPerLine ==
    \A k \in 1..Len(pout) :
        /\ Len(pout[k]) <= 1
        /\ (Contains(pin, <<"[ExtractAudio]">>) \/ Contains(pin, <<"[Merger]">>)) =>
              (Len(pout[k]) = 1 /\ pout[k][1].kind = "Converting")

\* the argument a is in the list, resp. is followed in it by the argument b
HasArg(args, a) == \E i \in 1..Len(args) : args[i] = a
HasArgPair(args, a, b) == \E i \in 1..(Len(args) - 1) : args[i] = a /\ args[i + 1] = b

\* C29: the argument list holds --audio-quality only for Mp3, with the quality
\* of the caller; Wav, M4a and Flac get -x and --audio-format and no quality;
\* Mp4 and Webm get -f with a selector and --merge-output-format of the same
\* container; every list starts with --no-playlist and ends with the URL.
C29_ArgumentsPerFormat ==
    pout # <<>> =>
        LET args == pout[1]
            c == pin[1]
            name == CASE c.format = "Mp3" -> "mp3" [] c.format = "Wav" -> "wav"
                      [] c.format = "M4a" -> "m4a" [] c.format = "Flac" -> "flac"
                      [] c.format = "Mp4" -> "mp4" [] c.format = "Webm" -> "webm"
        IN /\ args[1] = "--no-playlist"
           /\ args[Len(args)] = c.url
           /\ HasArg(args, "--audio-quality") <=> c.format = "Mp3"
           /\ c.format = "Mp3" => HasArgPair(args, "--audio-quality", c.audio_quality)
           /\ c.format \in {"Mp3", "Wav", "M4a", "Flac"} =>
                 /\ HasArg(args, "-x")
                 /\ HasArgPair(args, "--audio-format", name)
                 /\ ~HasArg(args, "-f")
                 /\ ~HasArg(args, "--merge-output-format")
           /\ c.format \in {"Mp4", "Webm"} =>
                 /\ \E i \in 1..(Len(args) - 2) : args[i] = "-f" /\ args[i + 1] # "--merge-output-format"
                 /\ HasArgPair(args, "--merge-output-format", name)
                 /\ ~HasArg(args, "-x")
                 /\ ~HasArg(args, "--audio-format")
C29_Witness ==
    /\ pout # <<>>
    /\ pin[1].format = "Mp3"
    /\ pin[1].audio_quality = "128K"
    /\ HasArgPair(pout[1], "--audio-quality", "128K")
    /\ Len(pout[1]) = 13

\* C30: once stop_download was invoked during a job, handling that job's
\* terminal status starts no later job of the queue, also when the status is
\* Completed because the child had exited with success before the kill.
C30_NoJobStartedAfterStop ==
    [][ \A k \in {"Completed", "Failed"} :
          (UpdateHandles(k) /\ stopReq /\ Head(rx_ui).job = stop_tx)
              => (nJobs' = nJobs /\ wpc' = wpc) ]_vars

\* the user has pressed stop for job j, which has not yet spawned its child nor
\* started its killer thread
EarlyStop(j) == stopReq /\ stop_tx = j /\ wpc[j] \in {"start", "spawn"}
\* C31: a stop signal sent after download_next created the stop channel and
\* before download_video has spawned the child is kept in the channel; if the
\* spawn succeeds the killer thread receives it, and kills the child if the
\* child is still running then.
C31_EarlyStopIsNotLost ==
    /\ [](\A j \in Jobs : EarlyStop(j) => (kpc[j] = "none" /\ stopBuf[j] > 0))
    /\ [][\A j \in Jobs :
            stopBuf'[j] < stopBuf[j] =>
               \/ wpc[j] = "spawn" /\ wpc'[j] = "done" /\ child'[j] = "none"
               \/ /\ kpc[j] = "recv" /\ kpc'[j] = "done"
                  /\ child[j] \in {"running", "blocked"} =>
                        (child'[j] = "exited" /\ exitc'[j] = "killed")]_vars
    /\ \A j \in Jobs :
          EarlyStop(j) ~> (kpc[j] = "done" \/ (wpc[j] = "done" /\ child[j] = "none"))
C31_Witness ==
    /\ kpc[1] = "done"
    /\ exitc[1] = "killed"
    /\ printed[1] = <<>>
    /\ ~midReadStop[1]

\* the killer thread of a job whose terminal status the UI has handled is not
\* blocked: its receive returns, with the signal or with an error
FinishedKillerNotBlocked ==
    \A j \in Jobs : (uiPhase[j] = "terminal" /\ kpc[j] = "recv") => ENABLED KillerStep(j)
\* C32: the killer thread of every job eventually terminates, by receiving the
\* stop signal and killing or by the error its receive returns once the UI has
\* dropped the job's stop sender.
C32_KillerThreadTerminates ==
    \A j \in Jobs : (kpc[j] = "recv") ~> (kpc[j] = "done")

\* C33: stop_tx is set exactly while the state is Downloading; it is set or
\* replaced only by the start of a job, and cleared only when update finds the
\* queue finished after a Completed or handles a Failed or Stopped status.
C33_StopTxSetIffDownloading ==
    /\ [](stop_tx # None <=> state = "Downloading")
    /\ [][ (stop_tx' # stop_tx /\ stop_tx' # None) =>
              /\ nJobs' = nJobs + 1
              /\ stop_tx' = nJobs'
              /\ wpc'[stop_tx'] = "start"
              /\ (stop_tx # None) => UpdateHandles("Completed") ]_vars
    /\ [][ (stop_tx # None /\ stop_tx' = None) =>
              \/ UpdateHandles("Completed") /\ state' = "Finished"
                    /\ current_download_idx' = Len(download_queue)
              \/ UpdateHandles("Failed") /\ state' = "Ready"
              \/ UpdateHandles("Stopped") /\ state' = "Ready" ]_vars
C33_Witness ==
    /\ state = "Finished"
    /\ stop_tx = None
    /\ nJobs = 2
    /\ uiPhase[2] = "terminal"

\* C34: while the state is Downloading, current_download_idx is an index of
\* download_queue and the job that runs was started for the entry at that
\* index; the index grows by one when a Completed is handled and is set to 0
\* by start_download and by the back-to-list button, and changes in no other
\* step.
C34_IndexWithinQueue ==
    /\ [](state = "Downloading" =>
            /\ current_download_idx < Len(download_queue)
            /\ stop_tx \in 1..nJobs
            /\ jobEntry[stop_tx] = download_queue[current_download_idx + 1])
    /\ [](\A j \in Jobs :
            (WorkerAlive(j) \/ ChildAlive(j)) => (state = "Downloading" /\ stop_tx = j))
    /\ [][ current_download_idx' # current_download_idx =>
              \/ UpdateHandles("Completed")
                    /\ current_download_idx' = current_download_idx + 1
              \/ (start_download \/ back_to_list) /\ current_download_idx' = 0 ]_vars
C34_Witness ==
    /\ state = "Downloading"
    /\ current_download_idx = 1
    /\ Len(download_queue) = 2
    /\ jobEntry = <<1, 2>>
    /\ ChildAlive(2)

\* C35: when the state is Finished, the last jobs started, as many as the
\* queue has entries, were started for the entries of the queue in order, and
\* the one terminal status the UI handled of each of them is Completed.
C35_FinishedAfterAllCompleted ==
    /\ [](state = "Finished" =>
            LET n == Len(download_queue) IN
              /\ n >= 1
              /\ n <= nJobs
              /\ current_download_idx = n
              /\ \A i \in 1..n :
                    /\ jobEntry[nJobs - n + i] = download_queue[i]
                    /\ Len(seen[nJobs - n + i]) = 1
                    /\ seen[nJobs - n + i][1].kind = "Completed")
    /\ [][ (state' = "Finished" /\ state # "Finished") =>
              (UpdateHandles("Completed") /\ Head(rx_ui).job = stop_tx) ]_vars
C35_Witness ==
    /\ state = "Finished"
    /\ download_queue = <<1, 2>>
    /\ seen[1] # <<>>
    /\ seen[2] # <<>>

\* a status of job j is on its way to the UI or can still be sent
StatusPending(j) == WorkerAlive(j) \/ chan[j] # <<>> \/ JobsOfUi(j) # <<>>
\* C36: every status the UI handles belongs to the job started last, which is
\* the job of stop_tx, and is handled in the state Downloading; when a job is
\* started, no status of an earlier job is pending, so none can be handled
\* after the start of a later job or of a new run of the queue.
C36_NoStaleStatus ==
    /\ [][ \A k \in {"Starting", "Progress", "Converting", "Completed", "Failed", "Stopped"} :
            UpdateHandles(k) =>
               /\ Head(rx_ui).job = nJobs
               /\ Head(rx_ui).job = stop_tx
               /\ state = "Downloading" ]_vars
    /\ [](\A j \in Jobs : j < nJobs => ~StatusPending(j))
    /\ [](\A j \in Jobs : StatusPending(j) => state = "Downloading")
C36_Witness ==
    /\ nJobs = 2
    /\ state = "Ready"
    /\ uiPhase[2] = "terminal"
    /\ progress > 0

\* the step is update() handling a bootstrap status of kind k
UpdateHandlesInit(k) ==
    /\ rx_ui # <<>>
    /\ rx_ui' = Tail(rx_ui)
    /\ Head(rx_ui).tag = "InitStatus"
    /\ Head(rx_ui).st.kind = k
\* C37: the state Initializing is left only by update handling a terminal
\* bootstrap status; Completed leads to Input when a download directory was
\* saved and to SetPath otherwise, Failed leads to SetPath with the error
\* message set; Starting, Downloading and Extracting leave the state as it is.
C37_InitializingLeftOnTerminal ==
    /\ [][ (state = "Initializing" /\ state' # "Initializing") =>
              (UpdateHandlesInit("Completed") \/ UpdateHandlesInit("Failed")) ]_vars
    /\ [][ UpdateHandlesInit("Completed") =>
              (state' = (IF skip_set_path THEN "Input" ELSE "SetPath")
                 /\ error_msg' = error_msg) ]_vars
    /\ [][ UpdateHandlesInit("Failed") =>
              (state' = "SetPath" /\ error_msg' = "init_failed") ]_vars
    /\ [][ \A k \in {"Starting", "Downloading", "Extracting"} :
              UpdateHandlesInit(k) => (state' = state /\ error_msg' = error_msg) ]_vars
C37_Witness ==
    /\ state = "SetPath"
    /\ skip_set_path
    /\ error_msg = "init_failed"
    /\ init_status # "preparing"

\* the directories that hold a yt-dlp after the bootstrap has completed
HoldingYtdlp ==
    {AppDir} \cup (IF pin.system_ytdlp THEN {"/usr/bin"} ELSE {})
                \cup (IF pin.pipx_exists THEN {"home/.local/bin"} ELSE {})
\* C38: on every platform the yt-dlp that download_video and
\* fetch_playlist_info execute is the file init_dependencies checks and
\* installs, and the directory of the ffmpeg it installs is on the PATH given
\* to the child.
C38_SupervisorRunsBootstrappedTools ==
    pout # <<>> =>
        /\ pout[1].executed.name = pout[1].installed.name
        /\ ExecutedDir(pout[1].executed, pout[1].child_path, HoldingYtdlp)
              = pout[1].installed.dir
        /\ \E i \in 1..Len(pout[1].child_path) : pout[1].child_path[i] = pout[1].ffmpeg.dir
====
